---- MODULE Spec2Model ----
(***************************************************************************)
(* Verification model of the ovation_holdings ETL pipeline:                *)
(*   - SalesRepResolver   (Step3 clean_customer_data.py)                   *)
(* Tables are records [cols, rows]: cols is the set of column names, rows  *)
(* the sequence of rows, each row a function from column name to value.    *)
(***************************************************************************)
EXTENDS Integers, Sequences, FiniteSets, TLC

VARIABLES
    curate_in,          \* curate_line_items: argument `df`
    curate_out,         \* curate_line_items: returned table
    curate_pc,          \* "start" before the call, "done" after it
    line_items,         \* get_highest_recent_prices: argument `line_items` (target rows)
    purchase_orders,    \* get_highest_recent_prices: argument `purchase_orders` (price rows)
    price_result,       \* get_highest_recent_prices: returned table
    price_pc,           \* "start" before the call, "done" after it
    customers,          \* clean_and_filter_customer_data: argument `customers`
    active_cust_ids,    \* clean_and_filter_customer_data: argument `active_cust_ids`
    customer_drops,     \* table_field_drops_on_clean.json["customer"]
    active_customers,   \* clean_and_filter_customer_data: returned table (or KeyError)
    cust_pc,            \* "start" before the call, "done" after it
    items,              \* clean_and_resolve_manufacturers: argument, as passed in
    items_after,        \* the caller's table, the same object, as the call leaves it
    mfg_name_map,       \* manufacturer_name_map.json["manufacturer_map"]
    mfr_result,         \* clean_and_resolve_manufacturers: returned table
    mfr_module,         \* which of the two definitions was called
    mfr_pc,             \* "start" before the call, "done" after it, "raised" when it raised
    clean_df,           \* clean_dataframe: argument `df` of the first call
    clean_table_name,   \* clean_dataframe: argument `table_name`
    clean_drop_cols,    \* table_field_drops_on_clean.json[table_name]
    clean_name_map,     \* manufacturer_name_map.json["manufacturer_map"]
    clean_once,         \* result of clean_dataframe(df, table_name)
    clean_twice,        \* result of clean_dataframe applied to clean_once
    clean_pc,           \* "start", "once", "twice" or "raised"
    data_to_convert,    \* repair_raw_data.main: the list of table names of the run
    table_fields_map,   \* table_field_types.json
    raw_lake,           \* the *_raw.parquet files of the data lake
    repaired_lake,      \* the *_repaired.parquet files written by the run
    repair_i,           \* position of `raw_data_table` in data_to_convert
    repair_transactions,\* main: local `transactions` (`df` for a single table)
    repair_line_items,  \* main: local `line_items`
    repair_error,       \* the exception that ended the run, if any
    repair_pc,          \* position of main inside the loop body
    conv_df,            \* the caller's table as passed to the call
    conv_field_map,     \* the field map of the table
    conv_df_after,      \* the caller's table object after the call
    conv_result,        \* what the call returned, or the exception it raised
    conv_fn,            \* the function called
    conv_pc,            \* "start" before the call, "done" after it
    file_names,         \* read_files_in_batches_from_data_lake: argument `file_names`
    lake_objects,       \* what reading each listed object gives: records, or a failure
    batch_size,         \* argument `batch_size`
    max_workers,        \* argument `max_workers`
    batch_i,            \* loop variable `i` of line 134
    futures,            \* per listed object: state and result of its future
    read_attempts,      \* per listed object: calls of read_file_from_data_lake
    dataframes,         \* local `dataframes`
    final_df,           \* the returned table
    batch_pc,           \* position of the calling thread
    raw_artifact,       \* convert_json_to_parquet: the Parquet artifact it saves
    stage_runs,         \* completed runs of convert_json_to_parquet
    aug_df,             \* the table passed to the augmentation function
    aug_transactions,   \* augment_line_items: argument `transaction_df`
    aug_customers,      \* argument `customer_df`
    aug_items,          \* argument `item_master_df` / `level_info`
    aug_purchase_orders,\* augment_line_items: argument `purchase_order_df`
    aug_end_date,       \* augment_line_items: argument `end_date`
    aug_result,         \* the returned table
    aug_pc,             \* "start" before the call, "done" after it
    \* ---- get_transactions_and_line_items
    fetch_trans_type,   \* the trans_type argument
    fetch_requested,    \* the data_state argument, as passed
    fetch_lake,         \* the paths that hold an artifact
    data_state,         \* the local data_state
    fetch_reads,        \* the paths downloaded so far, in order
    fetch_transactions, \* the header table returned, named by its path
    fetch_line_items,   \* the line-item table returned, named by its path
    fetch_error,        \* the exception raised, if any
    fetch_pc,
    \* ---- the task runners of Step3 and Step4
    task_lake,          \* the artifacts the lake holds
    task_written,       \* the artifacts written by the scripts run so far
    task_runner,        \* the tasks.py being executed: "Step3", "Step4"
    task_i,             \* position of the current script in its runner
    task_step,          \* position of the running script in its reads and saves
    task_status,        \* per script: "pending", "running", "completed", "failed"
    task_reads          \* the reads done: script, artifact, and whether a
                        \* script run before had written the artifact

priceVars == <<line_items, purchase_orders, price_result, price_pc>>

curateVars == <<curate_in, curate_out, curate_pc>>

mfrVars == <<items, items_after, mfg_name_map, mfr_result, mfr_module, mfr_pc>>

cleanVars == <<clean_df, clean_table_name, clean_drop_cols, clean_name_map,
               clean_once, clean_twice, clean_pc>>

repairVars == <<data_to_convert, table_fields_map, raw_lake, repaired_lake, repair_i,
                repair_transactions, repair_line_items, repair_error, repair_pc>>

convVars == <<conv_df, conv_field_map, conv_df_after, conv_result, conv_fn, conv_pc>>

batchVars == <<file_names, lake_objects, batch_size, max_workers, batch_i, futures,
               read_attempts, dataframes, final_df, batch_pc, raw_artifact, stage_runs>>

vars == <<curate_in, curate_out, curate_pc,
          line_items, purchase_orders, price_result, price_pc,
          customers, active_cust_ids, customer_drops, active_customers, cust_pc,
          items, items_after, mfg_name_map, mfr_result, mfr_module, mfr_pc,
          clean_df, clean_table_name, clean_drop_cols, clean_name_map,
          clean_once, clean_twice, clean_pc,
          data_to_convert, table_fields_map, raw_lake, repaired_lake, repair_i,
          repair_transactions, repair_line_items, repair_error, repair_pc,
          conv_df, conv_field_map, conv_df_after, conv_result, conv_fn, conv_pc,
          file_names, lake_objects, batch_size, max_workers, batch_i, futures,
          read_attempts, dataframes, final_df, batch_pc, raw_artifact, stage_runs,
          aug_df, aug_transactions, aug_customers, aug_items, aug_purchase_orders,
          aug_end_date, aug_result, aug_pc,
          fetch_trans_type, fetch_requested, fetch_lake, data_state, fetch_reads,
          fetch_transactions, fetch_line_items, fetch_error, fetch_pc,
          task_lake, task_written, task_runner, task_i, task_step, task_status, task_reads>>

augVars == <<aug_df, aug_transactions, aug_customers, aug_items, aug_purchase_orders,
             aug_end_date, aug_result, aug_pc>>

custVars == <<customers, active_cust_ids, customer_drops, active_customers, cust_pc>>

----------------------------------------------------------------------------
(* Generic helpers *)

\* the sentinel used for missing strings throughout the pipeline
NotSpecified == "Not Specified"

\* result of a pandas call that raised KeyError
KeyError == [error |-> "KeyError"]

\* value of a result variable before the call that sets it
NoTable == [none |-> TRUE]

IsTable(t) == DOMAIN t = {"cols", "rows"}

\* sequences over S of length 0..n
SeqUpTo(S, n) == UNION {[1..k -> S] : k \in 0..n}

\* set of elements of a sequence
Range(s) == {s[i] : i \in DOMAIN s}

\* permutations of 1..n
Perms(n) == {p \in [1..n -> 1..n] : \A i, j \in 1..n : p[i] = p[j] => i = j}

\* the sequence s rearranged by the permutation p
Permute(s, p) == [i \in DOMAIN s |-> s[p[i]]]

\* largest element of a non-empty set of integers
SetMax(S) == CHOOSE x \in S : \A y \in S : y <= x

\* a missing value (NaN / NaT / None) and a present one
Null == <<>>

Some(v) == <<v>>


\* `df[col]`: one column as a series aligned with the rows
Column(rows, col) == [i \in DOMAIN rows |-> rows[i][col]]

\* a scalar broadcast to a series aligned with the rows
Broadcast(rows, v) == [i \in DOMAIN rows |-> v]

\* `df[col] = series` for a new or existing column
SetCol(rows, col, series) ==
    [i \in DOMAIN rows |->
        [c \in (DOMAIN rows[i]) \cup {col} |->
            IF c = col THEN series[i] ELSE rows[i][c]]]

\* `df.loc[mask, col] = series`: rows selected by the mask take the
\* (index-aligned) value of the series, the others keep theirs
LocAssign(rows, mask, col, series) ==
    [i \in DOMAIN rows |->
        IF mask[i] THEN [rows[i] EXCEPT ![col] = series[i]]
                   ELSE rows[i]]

\* `df.rename(columns={old: new})`
RenameCol(r, old, new) ==
    [c \in ((DOMAIN r) \ {old}) \cup {new} |-> IF c = new THEN r[old] ELSE r[c]]

----------------------------------------------------------------------------
(* common/utils/data_cleansing.py : drop_dataframe_columns                 *)
(* drop_cols is table_field_drops_on_clean.json[table_name]; DataFrame.drop *)
(* raises KeyError when a listed column is not a column of the table.      *)

drop_dataframe_columns(df, drop_cols) ==
    IF ~(Range(drop_cols) \subseteq df.cols)
    THEN KeyError
    ELSE [cols |-> df.cols \ Range(drop_cols),
          rows |-> [i \in DOMAIN df.rows |->
                      [c \in df.cols \ Range(drop_cols) |-> df.rows[i][c]]]]

----------------------------------------------------------------------------
(* Step3_clean_raw_data/clean_customer_data.py                             *)

MaxCustomers == 2

Reps == {NotSpecified, "Jane", "Bob"}

CustomerCols == {"id", "primary_sales_rep", "ai_sales_rep"}

\* the customer table: one row per customer id
CustomerTables ==
    {[cols |-> CustomerCols,
      rows |-> [i \in DOMAIN f |-> [id |-> i,
                                    primary_sales_rep |-> f[i][1],
                                    ai_sales_rep |-> f[i][2]]]] :
        f \in SeqUpTo(Reps \X Reps, MaxCustomers)}

\* candidate contents of table_field_drops_on_clean.json["customer"]
CustomerDropLists == {<<>>, <<"primary_sales_rep", "ai_sales_rep">>}

\* customers[customers['id'].isin(active_cust_ids)].copy()
ActiveRows(custs, ids) == SelectSeq(custs.rows, LAMBDA r : r.id \in ids)

\* line 71-72: the new column starts as the default
SalesRepInit(rows, default_str_for_na) ==
    SetCol(rows, "sales_rep", Broadcast(rows, default_str_for_na))

\* line 73: primary specified, ai not
SalesRepRule1Mask(r, na) == r.primary_sales_rep # na /\ r.ai_sales_rep = na

SalesRepRule1(rows, na) ==
    LocAssign(rows, [i \in DOMAIN rows |-> SalesRepRule1Mask(rows[i], na)],
              "sales_rep", Column(rows, "primary_sales_rep"))

\* line 74: ai specified, primary not
SalesRepRule2Mask(r, na) == r.primary_sales_rep = na /\ r.ai_sales_rep # na

SalesRepRule2(rows, na) ==
    LocAssign(rows, [i \in DOMAIN rows |-> SalesRepRule2Mask(rows[i], na)],
              "sales_rep", Column(rows, "ai_sales_rep"))

\* mutant of line 75: the test that primary_sales_rep is specified is lost
SalesRepRule3Mask_NoPrimaryTest(r, na) ==
    /\ r.ai_sales_rep # na
    /\ r.primary_sales_rep # r.ai_sales_rep

\* line 75: both specified and different
SalesRepRule3Mask(r, na) ==
    /\ r.primary_sales_rep # na
    /\ r.ai_sales_rep # na
    /\ r.primary_sales_rep # r.ai_sales_rep

SalesRepRule3(rows, na) ==
    LocAssign(rows, [i \in DOMAIN rows |-> SalesRepRule3Mask(rows[i], na)],
              "sales_rep", Broadcast(rows, "Multiple"))

\* lines 71-75 in order
ResolveSalesRep(rows, na) ==
    SalesRepRule3(SalesRepRule2(SalesRepRule1(SalesRepInit(rows, na), na), na), na)

clean_and_filter_customer_data(custs, ids, default_str_for_na, drop_cols) ==
    LET active  == ActiveRows(custs, ids)
        withRep == ResolveSalesRep(active, default_str_for_na)
        renamed == [i \in DOMAIN withRep |-> RenameCol(withRep[i], "id", "customer_id")]
    IN  drop_dataframe_columns(
            [cols |-> ((custs.cols \ {"id"}) \cup {"customer_id", "sales_rep"}),
             rows |-> renamed],
            drop_cols)

CustIdle ==
    /\ customers = NoTable
    /\ active_cust_ids = {}
    /\ customer_drops = <<>>
    /\ active_customers = NoTable
    /\ cust_pc = "idle"

CustInit ==
    /\ customers \in CustomerTables
    /\ active_cust_ids \in SUBSET (1..MaxCustomers)
    /\ customer_drops \in CustomerDropLists
    /\ active_customers = NoTable
    /\ cust_pc = "start"

\* clean_customer_data.main, line 125
CleanCustomers ==
    /\ cust_pc = "start"
    /\ active_customers' =
          clean_and_filter_customer_data(customers, active_cust_ids,
                                         NotSpecified, customer_drops)
    /\ cust_pc' = "done"
    /\ UNCHANGED <<customers, active_cust_ids, customer_drops>>

----------------------------------------------------------------------------
(* Step4_augment_clean_data/augment_transaction_data.py :                  *)
(* get_highest_recent_prices (RecentPriceWindowCalculator)                 *)
(* Dates are day numbers.  A target row carries its DataFrame index label  *)
(* in the field `index`; the other fields are columns.                     *)

\* window: Literal['365D'] = '365D'
WindowDays == 365

MaxPO == 2

MaxLI == 2

Skus == {"X1", "X2"}

\* order of the SKU strings, used by sort_values([sku_col, date_col])
SkuRank(sku) == IF sku = "X1" THEN 1 ELSE 2

\* day numbers on both sides of the window boundary
Dates == {0, WindowDays, WindowDays + 1}

Prices == {10, 15}

PriceRows == [sku : Skus, created_date : Dates, unit_price : Prices]

\* price tables: any rows in any order
PriceTables == SeqUpTo(PriceRows, MaxPO)

\* target tables as augment_line_items passes them: a fresh RangeIndex
TargetTables ==
    {[i \in DOMAIN f |-> [index |-> i - 1, id |-> i,
                          sku |-> f[i][1], created_date |-> f[i][2]]] :
        f \in SeqUpTo(Skus \X Dates, MaxLI)}

\* target tables with arbitrary index labels (duplicates, any order)
LabelledTargetTables ==
    {[i \in DOMAIN f |-> [index |-> f[i][3], id |-> i,
                          sku |-> f[i][1], created_date |-> f[i][2]]] :
        f \in SeqUpTo(Skus \X Dates \X (0..(MaxLI - 1)), MaxLI)}

\* line 125: li['_orig_idx'] = li.index
WithOrigIdx(li) ==
    [i \in DOMAIN li |-> [id |-> li[i].id, sku |-> li[i].sku,
                          created_date |-> li[i].created_date,
                          orig_idx |-> li[i].index]]

\* lines 126 and 141: sort_values(date_col) uses the default quicksort, which
\* does not fix the order of rows with equal dates: every arrangement
\* sorted by date is a possible outcome
SortValuesByDate(rows) ==
    {Permute(rows, p) : p \in
        {q \in Perms(Len(rows)) :
            \A i, j \in 1..Len(rows) :
                i < j => rows[q[i]].created_date <= rows[q[j]].created_date}}

\* line 155: sort_values('_orig_idx'), the same default quicksort
SortValuesByOrigIdx(rows) ==
    {Permute(rows, p) : p \in
        {q \in Perms(Len(rows)) :
            \A i, j \in 1..Len(rows) :
                i < j => rows[q[i]].orig_idx <= rows[q[j]].orig_idx}}

\* (sku, date) of row a sorts before that of row b
SkuDateLess(a, b) ==
    \/ SkuRank(a.sku) < SkuRank(b.sku)
    \/ (a.sku = b.sku /\ a.created_date < b.created_date)

\* line 128: sort_values([sku_col, date_col]) is a lexsort, which is stable:
\* rows with equal (sku, date) keep their input order
SortValuesBySkuDate(po) ==
    LET p == CHOOSE q \in Perms(Len(po)) :
                \A i, j \in 1..Len(po) :
                    i < j => \/ SkuDateLess(po[q[i]], po[q[j]])
                             \/ (/\ po[q[i]].sku = po[q[j]].sku
                                 /\ po[q[i]].created_date = po[q[j]].created_date
                                 /\ q[i] < q[j])
    IN  Permute(po, p)

\* lines 131-139: groupby(sku).rolling('365D').max() on the sorted price rows.
\* The window of row i holds the rows of its SKU at positions up to i
\* whose date is later than date(i) - 365 days (closed on the right only);
\* a row of the same date placed after row i is not in the window of row i.
RollingWindow(po_sorted, i) ==
    {j \in 1..i :
        /\ po_sorted[j].sku = po_sorted[i].sku
        /\ po_sorted[j].created_date > po_sorted[i].created_date - WindowDays}

RollingMax(po_sorted) ==
    [i \in DOMAIN po_sorted |->
        [sku |-> po_sorted[i].sku,
         created_date |-> po_sorted[i].created_date,
         output |-> SetMax({po_sorted[j].unit_price : j \in RollingWindow(po_sorted, i)})]]

\* lines 144-150: merge_asof(direction='backward', by=sku): the last row of
\* `right` (in position) with the same SKU and a date not after the left
\* row's date; a missing value when there is none
AsofMatch(l, right) ==
    LET cand == {j \in DOMAIN right :
                    right[j].sku = l.sku /\ right[j].created_date <= l.created_date}
    IN  IF cand = {} THEN Null ELSE Some(right[SetMax(cand)].output)

MergeAsof(left, right) ==
    [i \in DOMAIN left |->
        [id |-> left[i].id, sku |-> left[i].sku,
         created_date |-> left[i].created_date,
         orig_idx |-> left[i].orig_idx,
         output |-> AsofMatch(left[i], right)]]

\* lines 156-157: drop(columns=['_orig_idx']).reset_index(drop=True)
DropOrigIdx(rows) ==
    [i \in DOMAIN rows |-> [id |-> rows[i].id, sku |-> rows[i].sku,
                            created_date |-> rows[i].created_date,
                            output |-> rows[i].output]]

\* every table the call can return
get_highest_recent_prices(li, po) ==
    LET rolling == RollingMax(SortValuesBySkuDate(po))
    IN  {DropOrigIdx(result) :
            result \in UNION {SortValuesByOrigIdx(MergeAsof(li_sorted, rolling_sorted)) :
                                li_sorted \in SortValuesByDate(WithOrigIdx(li)),
                                rolling_sorted \in SortValuesByDate(rolling)}}

PriceIdle ==
    /\ line_items = <<>>
    /\ purchase_orders = <<>>
    /\ price_result = <<>>
    /\ price_pc = "idle"

PriceInit ==
    /\ line_items \in TargetTables
    /\ purchase_orders \in PriceTables
    /\ price_result = <<>>
    /\ price_pc = "start"

\* price tables with at most one row per (SKU, date)
PriceInitNoTies ==
    /\ line_items \in TargetTables
    /\ purchase_orders \in
          {po \in PriceTables :
              \A i, j \in DOMAIN po :
                  (po[i].sku = po[j].sku /\ po[i].created_date = po[j].created_date)
                  => i = j}
    /\ price_result = <<>>
    /\ price_pc = "start"

PriceInitAnyIndex ==
    /\ line_items \in LabelledTargetTables
    /\ purchase_orders \in SeqUpTo(PriceRows, 1)
    /\ price_result = <<>>
    /\ price_pc = "start"

\* augment_line_items, line 227
GetHighestRecentPrices ==
    /\ price_pc = "start"
    /\ price_result' \in get_highest_recent_prices(line_items, purchase_orders)
    /\ price_pc' = "done"
    /\ UNCHANGED <<line_items, purchase_orders>>

----------------------------------------------------------------------------
(* common/utils/data_cleansing.py : clean_and_resolve_manufacturers        *)
(* A string cell is the sequence of its characters; a missing cell (NaN)   *)
(* is Missing.                                                             *)

Missing == <<"<NA>">>

LowerLetters == <<"a", "b", "c", "d", "e", "f", "g", "h", "i", "j", "k", "l", "m", "n", "o", "p", "q", "r", "s", "t", "u", "v", "w", "x", "y", "z">>

UpperLetters == <<"A", "B", "C", "D", "E", "F", "G", "H", "I", "J", "K", "L", "M", "N", "O", "P", "Q", "R", "S", "T", "U", "V", "W", "X", "Y", "Z">>

LetterIndex(letters, c) == CHOOSE i \in DOMAIN letters : letters[i] = c

IsLower(c) == c \in Range(LowerLetters)

IsUpper(c) == c \in Range(UpperLetters)

IsCased(c) == IsLower(c) \/ IsUpper(c)

ToUpper(c) == IF IsLower(c) THEN UpperLetters[LetterIndex(LowerLetters, c)] ELSE c

ToLower(c) == IF IsUpper(c) THEN LowerLetters[LetterIndex(UpperLetters, c)] ELSE c

\* characters matched by \s
IsSpace(c) == c \in {" ", "\t"}

\* line 152: str.replace(r'[,.\/-]', ' ', regex=True)
ReplaceSpecial(v) ==
    IF v = Missing THEN Missing
    ELSE [i \in DOMAIN v |-> IF v[i] \in {",", ".", "/", "-"} THEN " " ELSE v[i]]

\* line 155: str.strip()
Strip(v) ==
    IF v = Missing THEN Missing
    ELSE LET keep == {i \in DOMAIN v : ~IsSpace(v[i])}
         IN  IF keep = {} THEN <<>>
             ELSE SubSeq(v, CHOOSE a \in keep : \A b \in keep : a <= b, SetMax(keep))

\* line 156: str.replace(r'\s+', ' ', regex=True)
CollapseSpaces(v) ==
    IF v = Missing THEN Missing
    ELSE LET F[i \in 0..Len(v)] ==
                 IF i = 0 THEN <<>>
                 ELSE IF IsSpace(v[i])
                      THEN (IF i > 1 /\ IsSpace(v[i - 1]) THEN F[i - 1]
                            ELSE Append(F[i - 1], " "))
                      ELSE Append(F[i - 1], v[i])
         IN  F[Len(v)]

\* line 159: str.title(): a cased character is upper-cased when the previous
\* character is not cased and lower-cased when it is
Title(v) ==
    IF v = Missing THEN Missing
    ELSE [i \in DOMAIN v |->
            LET prev_cased == i > 1 /\ IsCased(v[i - 1])
            IN  IF IsLower(v[i]) /\ ~prev_cased THEN ToUpper(v[i])
                ELSE IF IsUpper(v[i]) /\ prev_cased THEN ToLower(v[i])
                ELSE v[i]]

\* lines 152-159 on one cell
NormalizeManufacturer(v) == Title(CollapseSpaces(Strip(ReplaceSpecial(v))))

\* lines 163-164: one pass over manufacturer_map in dictionary order; a value
\* listed among the misspellings of an entry becomes its correct name
CorrectMisspellings(v, name_map) ==
    LET F[k \in 0..Len(name_map)] ==
            IF k = 0 THEN v
            ELSE IF F[k - 1] \in name_map[k].misspellings
                 THEN name_map[k].correct_name
                 ELSE F[k - 1]
    IN  F[Len(name_map)]

S_NotSpecified == <<"N", "o", "t", " ", "S", "p", "e", "c", "i", "f", "i", "e", "d">>

S_null == <<"n", "u", "l", "l">>

S_Unknown == <<"U", "n", "k", "n", "o", "w", "n">>

S_Valco == <<"V", "a", "l", "c", "o">>

S_Valcor == <<"V", "a", "l", "c", "o", "r">>

S_valcoDot == <<"v", "a", "l", "c", "o", ".">>

S_ACMECorpDot == <<"A", "C", "M", "E", " ", "C", "o", "r", "p", ".">>

S_AcmeCorp == <<"A", "c", "m", "e", " ", "C", "o", "r", "p">>

S_AcmeCorporation == <<"A", "c", "m", "e", " ", "C", "o", "r", "p", "o", "r", "a", "t", "i", "o", "n">>

S_spaced == <<" ", "o", "'", "n", "e", "i", "l", "-", "-", "3", "m", "\t", " ", "c", "o", "/", " ">>

S_X == <<"X">>

S_Y == <<"Y">>

S_3m == <<"3", "m">>

\* candidate contents of manufacturer_name_map.json["manufacturer_map"]
ManufacturerMaps ==
    {<<[correct_name |-> S_Valcor, misspellings |-> {S_Valco}]>>,
     <<[correct_name |-> S_Valcor, misspellings |-> {S_Valco}],
       [correct_name |-> S_AcmeCorporation, misspellings |-> {S_AcmeCorp}]>>}

\* mutant of lines 145 and 148: vsi_mfr is consulted before custom_manufacturer
ResolveManufacturerColumns_VsiFirst(rows) ==
    LET step1 == LocAssign(rows,
                     [i \in DOMAIN rows |-> rows[i].manufacturer = S_NotSpecified],
                     "manufacturer", Column(rows, "vsi_mfr"))
    IN  LocAssign(step1,
                  [i \in DOMAIN step1 |-> step1[i].manufacturer = S_NotSpecified],
                  "manufacturer", Column(step1, "custom_manufacturer"))

\* lines 145 and 148: the two ordered overwrites
ResolveManufacturerColumns(rows) ==
    LET step1 == LocAssign(rows,
                     [i \in DOMAIN rows |-> rows[i].manufacturer = S_NotSpecified],
                     "manufacturer", Column(rows, "custom_manufacturer"))
    IN  LocAssign(step1,
                  [i \in DOMAIN step1 |-> step1[i].manufacturer = S_NotSpecified],
                  "manufacturer", Column(step1, "vsi_mfr"))

\* lines 152-164 on the manufacturer column
CleanManufacturerColumn(rows, name_map) ==
    [i \in DOMAIN rows |->
        [rows[i] EXCEPT !.manufacturer =
            CorrectMisspellings(NormalizeManufacturer(@), name_map)]]

\* the three columns are read by name: KeyError when one is absent
clean_and_resolve_manufacturers(df, name_map) ==
    IF ~({"manufacturer", "custom_manufacturer", "vsi_mfr"} \subseteq df.cols)
    THEN KeyError
    ELSE [cols |-> df.cols,
          rows |-> CleanManufacturerColumn(ResolveManufacturerColumns(df.rows),
                                           name_map)]

\* lines 145-166 assign into df itself and return it: the caller's table
\* after the call. Line 145 reads custom_manufacturer and manufacturer before
\* it assigns, line 148 reads vsi_mfr; the KeyError of line 148 leaves the
\* overwrite of line 145 in the table
ResolvedInPlace(df, name_map) ==
    IF ~({"manufacturer", "custom_manufacturer"} \subseteq df.cols) THEN df
    ELSE IF "vsi_mfr" \notin df.cols
    THEN [df EXCEPT !.rows =
             LocAssign(@, [i \in DOMAIN @ |-> @[i].manufacturer = S_NotSpecified],
                       "manufacturer", Column(@, "custom_manufacturer"))]
    ELSE clean_and_resolve_manufacturers(df, name_map)

\* clean_raw_data/scripts/clean_item_data.py, line 20/21: Series.replace
ReplaceNull(v) == IF v = S_null THEN S_NotSpecified ELSE v

\* clean_raw_data/scripts/clean_item_data.py, line 22
ReplaceVsiMarkers(v) ==
    IF v = S_null \/ v = S_Unknown \/ v = Missing THEN S_NotSpecified ELSE v

TypeError == [error |-> "TypeError"]

\* the earlier definition of the resolver kept in clean_raw_data/scripts:
\* KeyError at lines 20-22 when a column is absent; otherwise line 43 calls
\* load_config(..., flush_cache=True), a keyword load_config
\* (configuration_management.py line 22) does not take, and the TypeError
\* ends the call before the map is read and before the return of line 47
clean_item_data_clean_and_resolve_manufacturers(df) ==
    IF ~({"manufacturer", "custom_manufacturer", "vsi_mfr"} \subseteq df.cols)
    THEN KeyError
    ELSE TypeError

\* lines 20-40 assign into `items` itself: the caller's table when the call
\* has raised. Lines 20, 21 and 22 read their column in turn, so a KeyError
\* leaves the replacements made before it; with the three columns present
\* the markers are replaced, manufacturer is resolved (lines 26, 29) and
\* normalized (lines 33-40), and the misspellings are not corrected
clean_item_data_InPlace(df) ==
    IF "manufacturer" \notin df.cols THEN df
    ELSE IF "custom_manufacturer" \notin df.cols
    THEN [df EXCEPT !.rows =
             [i \in DOMAIN @ |-> [@[i] EXCEPT !.manufacturer = ReplaceNull(@)]]]
    ELSE IF "vsi_mfr" \notin df.cols
    THEN [df EXCEPT !.rows =
             [i \in DOMAIN @ |-> [@[i] EXCEPT !.manufacturer = ReplaceNull(@),
                                             !.custom_manufacturer = ReplaceNull(@)]]]
    ELSE LET marked == [i \in DOMAIN df.rows |->
                          [df.rows[i] EXCEPT
                              !.manufacturer = ReplaceNull(@),
                              !.custom_manufacturer = ReplaceNull(@),
                              !.vsi_mfr = ReplaceVsiMarkers(@)]]
             resolved == ResolveManufacturerColumns(marked)
         IN  [cols |-> df.cols,
              rows |-> [i \in DOMAIN resolved |->
                          [resolved[i] EXCEPT !.manufacturer = NormalizeManufacturer(@)]]]

MaxItems == 1

ManufacturerValues ==
    {S_NotSpecified, S_Valco, S_valcoDot, S_ACMECorpDot, S_spaced, S_null, S_Unknown}

CustomManufacturerValues == {S_NotSpecified, S_X, S_ACMECorpDot, S_null}

VsiMfrValues == {S_NotSpecified, S_Y, S_3m, S_Unknown}

ManufacturerCols == {"manufacturer", "custom_manufacturer", "vsi_mfr"}

\* item tables whose three manufacturer cells come from the given sets
ItemTablesOver(M, C, V) ==
    {[cols |-> ManufacturerCols, rows |-> r] :
        r \in SeqUpTo([manufacturer : M, custom_manufacturer : C, vsi_mfr : V],
                      MaxItems)}

\* repaired item tables: every cell is a string
ItemTables == ItemTablesOver(ManufacturerValues, CustomManufacturerValues, VsiMfrValues)

\* raw item tables: a cell may also be missing
RawItemTables ==
    ItemTablesOver(ManufacturerValues \cup {Missing},
                   CustomManufacturerValues \cup {Missing},
                   VsiMfrValues \cup {Missing})

MfrIdle ==
    /\ items = NoTable
    /\ items_after = NoTable
    /\ mfg_name_map = <<>>
    /\ mfr_result = NoTable
    /\ mfr_module = "none"
    /\ mfr_pc = "idle"

MfrInit ==
    /\ items \in ItemTables
    /\ items_after = items
    /\ mfg_name_map \in ManufacturerMaps
    /\ mfr_result = NoTable
    /\ mfr_module = "none"
    /\ mfr_pc = "start"

MfrInitRaw ==
    /\ items \in RawItemTables
    /\ items_after = items
    /\ mfg_name_map \in ManufacturerMaps
    /\ mfr_result = NoTable
    /\ mfr_module = "none"
    /\ mfr_pc = "start"

\* a call of common.utils.data_cleansing.clean_and_resolve_manufacturers
ResolveManufacturers ==
    /\ mfr_pc = "start"
    /\ mfr_result' = clean_and_resolve_manufacturers(items, mfg_name_map)
    /\ items_after' = ResolvedInPlace(items, mfg_name_map)
    /\ mfr_module' = "data_cleansing"
    /\ mfr_pc' = IF IsTable(mfr_result') THEN "done" ELSE "raised"
    /\ UNCHANGED <<items, mfg_name_map>>

\* a call of clean_raw_data.scripts.clean_item_data.clean_and_resolve_manufacturers:
\* it raises, and leaves the caller's table changed
ResolveManufacturersLegacy ==
    /\ mfr_pc = "start"
    /\ mfr_result' = clean_item_data_clean_and_resolve_manufacturers(items)
    /\ items_after' = clean_item_data_InPlace(items)
    /\ mfr_module' = "clean_item_data"
    /\ mfr_pc' = "raised"
    /\ UNCHANGED <<items, mfg_name_map>>

----------------------------------------------------------------------------
(* common/utils/data_cleansing.py : clean_dataframe                        *)
(* A float cell is held in thousandths, so 1234 stands for 1.234.          *)

S_Inactivated == <<"I", "n", "a", "c", "t", "i", "v", "a", "t", "e", "d">>

S_custom == <<"c", "u", "s", "t", "o", "m">>

S_InactivatedPump == <<"I", "n", "a", "c", "t", "i", "v", "a", "t", "e", "d", " ", "P", "u", "m", "p">>

S_CustomValve == <<"C", "u", "s", "t", "o", "m", " ", "v", "a", "l", "v", "e">>

S_customerKit == <<"c", "u", "s", "t", "o", "m", "e", "r", " ", "k", "i", "t">>

S_Valve == <<"V", "a", "l", "v", "e">>

\* line 217: str.startswith
StartsWith(v, prefix) ==
    Len(v) >= Len(prefix) /\ SubSeq(v, 1, Len(prefix)) = prefix

\* characters matched by \w
IsWordChar(c) ==
    IsCased(c) \/ c \in {"0", "1", "2", "3", "4", "5", "6", "7", "8", "9", "_"}

LowerCase(v) == [i \in DOMAIN v |-> ToLower(v[i])]

\* line 220: str.contains(r'\bcustom\b', case=False, regex=True)
ContainsWordCustom(v) ==
    \E i \in 1..(Len(v) - Len(S_custom) + 1) :
        /\ LowerCase(SubSeq(v, i, i + Len(S_custom) - 1)) = S_custom
        /\ (i = 1 \/ ~IsWordChar(v[i - 1]))
        /\ (i + Len(S_custom) > Len(v) \/ ~IsWordChar(v[i + Len(S_custom)]))

----------------------------------------------------------------------------
(* float64 arithmetic. A double is [neg, m, e]: the number m * 2^e (negated
   when neg) with 2^52 <= m < 2^53, or m = 0 for the zero of that sign. The
   53-bit m and the intermediate results are naturals written in base 2^15,
   least digit first. Subnormal numbers and overflow are outside the amounts
   modelled. *)

BigBase == 2^15

BigDigits == 1..10

BigNats == [BigDigits -> 0..(BigBase - 1)]

BigZero == [i \in BigDigits |-> 0]

\* the natural n < 2^31
BigFromInt(n) ==
    [i \in BigDigits |->
        IF i = 1 THEN n % BigBase
        ELSE IF i = 2 THEN (n \div BigBase) % BigBase
        ELSE IF i = 3 THEN n \div (BigBase * BigBase)
        ELSE 0]

BigOne == BigFromInt(1)

\* the value of a natural below 2^31
BigToInt(a) == a[1] + BigBase * a[2] + BigBase * BigBase * a[3]

BigAdd[a \in BigNats, b \in BigNats] ==
    LET carry[i \in 0..10] ==
            IF i = 0 THEN 0 ELSE (a[i] + b[i] + carry[i - 1]) \div BigBase
    IN  [i \in BigDigits |-> (a[i] + b[i] + carry[i - 1]) % BigBase]

\* a - b for a >= b
BigSub[a \in BigNats, b \in BigNats] ==
    LET borrow[i \in 0..10] ==
            IF i = 0 THEN 0
            ELSE IF a[i] - b[i] - borrow[i - 1] < 0 THEN 1 ELSE 0
    IN  [i \in BigDigits |-> (a[i] - b[i] - borrow[i - 1] + BigBase) % BigBase]

BigGeq[a \in BigNats, b \in BigNats] ==
    LET differ == {i \in BigDigits : a[i] # b[i]}
    IN  differ = {} \/ a[SetMax(differ)] > b[SetMax(differ)]

\* a * k for 0 <= k < 2^15
BigMulSmall[a \in BigNats, k \in 0..(BigBase - 1)] ==
    LET carry[i \in 0..10] ==
            IF i = 0 THEN 0 ELSE (a[i] * k + carry[i - 1]) \div BigBase
    IN  [i \in BigDigits |-> (a[i] * k + carry[i - 1]) % BigBase]

\* a * BigBase^j
BigShiftDigits[a \in BigNats, j \in 0..10] ==
    [i \in BigDigits |-> IF i > j THEN a[i - j] ELSE 0]

\* a * 2^k
BigShl[a \in BigNats, k \in 0..149] ==
    BigShiftDigits[BigMulSmall[a, 2^(k % 15)], k \div 15]

BigMul[a \in BigNats, b \in BigNats] ==
    LET sum[j \in 0..10] ==
            IF j = 0 THEN BigZero
            ELSE BigAdd[sum[j - 1], BigShiftDigits[BigMulSmall[a, b[j]], j - 1]]
    IN  sum[10]

\* the number of binary digits of a
BitLen[a \in BigNats] ==
    IF a = BigZero THEN 0
    ELSE LET h == SetMax({i \in BigDigits : a[i] # 0})
         IN  15 * (h - 1) + (CHOOSE k \in 1..15 : 2^(k - 1) <= a[h] /\ a[h] < 2^k)

\* n, d and e scaled by a power of two, n / d * 2^e kept, so that
\* 2^52 <= n / d < 2^53 (n, d > 0)
Normalize[n \in BigNats, d \in BigNats, e \in Int] ==
    LET s == 53 + BitLen[d] - BitLen[n]
        Scaled(t) == [n |-> IF t >= 0 THEN BigShl[n, t] ELSE n,
                      d |-> IF t >= 0 THEN d ELSE BigShl[d, 0 - t],
                      e |-> e - t]
    IN  IF BigGeq[Scaled(s).n, BigShl[Scaled(s).d, 53]] THEN Scaled(s - 1) ELSE Scaled(s)

DivStates == [rem : BigNats, d : BigNats, i : (0 - 1)..52, q : BigNats]

\* long division of rem by d, one binary digit of the quotient (below 2^53)
\* a step, from digit i down
BigDivMod[s \in DivStates] ==
    IF s.i < 0 THEN s
    ELSE IF BigGeq[s.rem, BigShl[s.d, s.i]]
         THEN BigDivMod[[s EXCEPT !.rem = BigSub[@, BigShl[s.d, s.i]],
                                  !.q = BigAdd[@, BigShl[BigOne, s.i]],
                                  !.i = @ - 1]]
         ELSE BigDivMod[[s EXCEPT !.i = @ - 1]]

\* n / d < 2^53 rounded to the nearest natural, a tie to the even one
RoundedQuotient[n \in BigNats, d \in BigNats] ==
    LET s     == BigDivMod[[rem |-> n, d |-> d, i |-> 52, q |-> BigZero]]
        twice == BigAdd[s.rem, s.rem]
        up    == IF twice = d THEN s.q[1] % 2 = 1 ELSE BigGeq[twice, d]
    IN  IF up THEN BigAdd[s.q, BigOne] ELSE s.q

\* the double nearest to n / d * 2^e for naturals n, d > 0 (round to nearest,
\* ties to even)
NearestDouble[neg \in BOOLEAN, n \in BigNats, d \in BigNats, e \in Int] ==
    LET z == Normalize[n, d, e]
        m == RoundedQuotient[z.n, z.d]
    IN  IF m = BigShl[BigOne, 53]
        THEN [neg |-> neg, m |-> BigShl[BigOne, 52], e |-> z.e + 1]
        ELSE [neg |-> neg, m |-> m, e |-> z.e]

Doubles == [neg : BOOLEAN, m : BigNats, e : Int]

DoubleZero == [neg |-> FALSE, m |-> BigZero, e |-> 0]

\* the zero of a sign
SignedZero(neg) == [neg |-> neg, m |-> BigZero, e |-> 0]

\* the double a decimal literal n / den stands for
DoubleOf[n \in Int, den \in Nat] ==
    IF n = 0 THEN DoubleZero
    ELSE NearestDouble[n < 0, BigFromInt(IF n < 0 THEN 0 - n ELSE n), BigFromInt(den), 0]

DoubleMul[x \in Doubles, y \in Doubles] ==
    IF x.m = BigZero \/ y.m = BigZero THEN SignedZero(x.neg # y.neg)
    ELSE NearestDouble[x.neg # y.neg, BigMul[x.m, y.m], BigOne, x.e + y.e]

\* x / y for y # 0
DoubleDiv[x \in Doubles, y \in Doubles] ==
    IF x.m = BigZero THEN SignedZero(x.neg # y.neg)
    ELSE NearestDouble[x.neg # y.neg, x.m, y.m, x.e - y.e]

\* x - y; a difference that is zero is +0, but -0 - +0 is -0
DoubleSub[x \in Doubles, y \in Doubles] ==
    IF x.m = BigZero /\ y.m = BigZero THEN SignedZero(x.neg /\ ~y.neg)
    ELSE IF y.m = BigZero THEN x
    ELSE IF x.m = BigZero THEN [y EXCEPT !.neg = ~y.neg]
    ELSE LET low == IF x.e < y.e THEN x.e ELSE y.e
             a   == BigShl[x.m, x.e - low]
             b   == BigShl[y.m, y.e - low]
         IN  IF x.neg # y.neg THEN NearestDouble[x.neg, BigAdd[a, b], BigOne, low]
             ELSE IF a = b THEN DoubleZero
             ELSE IF BigGeq[a, b] THEN NearestDouble[x.neg, BigSub[a, b], BigOne, low]
             ELSE NearestDouble[~x.neg, BigSub[b, a], BigOne, low]

\* rint: the integer nearest to a double of magnitude below 2^31, a tie to
\* the even one
DoubleRint[x \in Doubles] ==
    IF x.m = BigZero \/ x.e < 0 - 60 THEN 0
    ELSE LET k == BigToInt(RoundedQuotient[x.m, BigShl[BigOne, 0 - x.e]])
         IN  IF x.neg THEN 0 - k ELSE k

\* numpy's round(decimals=2) of a double, rint(x * 100) / 100, as a number
\* of hundredths
DoubleRoundedCents[x \in Doubles] == DoubleRint[DoubleMul[x, DoubleOf[100, 1]]]

\* line 107: round(decimals=2) on a float64 cell, given and returned in
\* thousandths: x / 1000 as a double, times 100, rint, over 100. A cell ending
\* in 5 thousandths goes the way its double and the product fall
\* (1.225 -> 1.23, 1.015 -> 1.01)
RoundToCents(x) == 10 * DoubleRoundedCents[DoubleOf[x, 1000]]

\* round_float_columns: `amount` is the float column of the tables below
round_float_columns(rows) ==
    [i \in DOMAIN rows |-> [rows[i] EXCEPT !.amount = RoundToCents(@)]]

\* lines 229-230
FlipQuantity(rows, table_name) ==
    IF table_name = "line_item"
    THEN [i \in DOMAIN rows |-> [rows[i] EXCEPT !.quantity = @ * (0 - 1)]]
    ELSE rows

\* lines 214-232; KeyError when a column that is read or dropped is absent
clean_dataframe(df, table_name, name_map, drop_cols) ==
    LET resolved == clean_and_resolve_manufacturers(df, name_map)
    IN  IF ~IsTable(resolved) THEN KeyError
        ELSE IF "item_name" \notin resolved.cols THEN KeyError
        ELSE
          LET active == SelectSeq(resolved.rows,
                            LAMBDA r : ~StartsWith(r.item_name, S_Inactivated))
              standard == SelectSeq(active,
                            LAMBDA r : ~ContainsWordCustom(r.item_name))
              rounded == IF "amount" \in resolved.cols
                         THEN round_float_columns(standard) ELSE standard
              dropped == drop_dataframe_columns(
                             [cols |-> resolved.cols, rows |-> rounded], drop_cols)
          IN  IF ~IsTable(dropped) THEN KeyError
              ELSE IF table_name = "line_item" /\ "quantity" \notin dropped.cols
                   THEN KeyError
              ELSE [cols |-> dropped.cols,
                    rows |-> FlipQuantity(dropped.rows, table_name)]

MaxCleanRows == 1

CleanCols ==
    {"manufacturer", "custom_manufacturer", "vsi_mfr", "item_name", "amount", "quantity"}

CleanRows ==
    [manufacturer : {S_NotSpecified, S_Valco},
     custom_manufacturer : {S_ACMECorpDot},
     vsi_mfr : {S_Y},
     item_name : {S_InactivatedPump, S_CustomValve, S_customerKit, S_Valve},
     amount : {1225, 1015, 1234, 1236},
     quantity : {0, 2, 0 - 3}]

CleanTables == {[cols |-> CleanCols, rows |-> r] : r \in SeqUpTo(CleanRows, MaxCleanRows)}

\* the two table names clean_dataframe is called with
CleanTableNames == {"item", "line_item"}

\* candidate contents of table_field_drops_on_clean.json[table_name]
CleanDropLists == {<<>>, <<"custom_manufacturer", "vsi_mfr">>}

CleanIdle ==
    /\ clean_df = NoTable
    /\ clean_table_name = "none"
    /\ clean_drop_cols = <<>>
    /\ clean_name_map = <<>>
    /\ clean_once = NoTable
    /\ clean_twice = NoTable
    /\ clean_pc = "idle"

CleanInit ==
    /\ clean_df \in CleanTables
    /\ clean_table_name \in CleanTableNames
    /\ clean_drop_cols \in CleanDropLists
    /\ clean_name_map \in ManufacturerMaps
    /\ clean_once = NoTable
    /\ clean_twice = NoTable
    /\ clean_pc = "start"

\* clean_dataframe(df, table_name)
CleanDataframe ==
    /\ clean_pc = "start"
    /\ clean_once' = clean_dataframe(clean_df, clean_table_name,
                                     clean_name_map, clean_drop_cols)
    /\ clean_pc' = IF IsTable(clean_once') THEN "once" ELSE "raised"
    /\ UNCHANGED <<clean_df, clean_table_name, clean_drop_cols, clean_name_map,
                   clean_twice>>

\* clean_dataframe applied to the table the first call returned
CleanDataframeAgain ==
    /\ clean_pc = "once"
    /\ clean_twice' = clean_dataframe(clean_once, clean_table_name,
                                      clean_name_map, clean_drop_cols)
    /\ clean_pc' = "twice"
    /\ UNCHANGED <<clean_df, clean_table_name, clean_drop_cols, clean_name_map,
                   clean_once>>

----------------------------------------------------------------------------
(* common/utils/data_validation.py, common/utils/data_repair.py            *)
(* A frame is [columns, dtypes, rows]: the column names in order, the      *)
(* dtype of each column and the rows.  A cell is [t, v]: t is "na" for a   *)
(* null, "str" for a Python str and "float" for a float; v is the text of  *)
(* the value as a sequence of characters.                                  *)

NullCell == [t |-> "na", v |-> <<>>]

StrCell(text) == [t |-> "str", v |-> text]

FloatCell(text) == [t |-> "float", v |-> text]

IsFrame(x) == "rows" \in DOMAIN x

ValueError == [error |-> "ValueError"]

NoError == [error |-> "none"]

\* data_validation.py line 23, raised with the message of data_repair.py line 116
ValidationError(table_name, bad_cols) ==
    [error |-> "ValidationError", table |-> table_name, columns |-> bad_cols]

Digits == {"0", "1", "2", "3", "4", "5", "6", "7", "8", "9"}

\* data_validation.py lines 58-72: _matches(val) for the dtype of the column
Matches(exp_dtype, cell) ==
    IF exp_dtype = "float64" THEN cell.t = "float"
    ELSE IF exp_dtype = "datetime64[ns]" THEN cell.t = "date"
    ELSE IF exp_dtype \in {"string", "object"} THEN cell.t = "str"
    ELSE TRUE

\* data_validation.py lines 50-81: a column is invalid when it holds a null,
\* or else when one of its values does not match the dtype
ColumnIsInvalid(df, col) ==
    \/ \E i \in DOMAIN df.rows : df.rows[i][col].t = "na"
    \/ \E i \in DOMAIN df.rows : ~Matches(df.dtypes[col], df.rows[i][col])

\* the list of the names of the invalid columns, in column order
validate_dataframe_data(df) ==
    SelectSeq(df.columns, LAMBDA col : ColumnIsInvalid(df, col))

\* DataFrame.drop(col, axis=1): KeyError when col is not a column
DropColumn(df, col) ==
    IF col \notin Range(df.columns) THEN KeyError
    ELSE [columns |-> SelectSeq(df.columns, LAMBDA c : c # col),
          dtypes |-> [c \in (DOMAIN df.dtypes) \ {col} |-> df.dtypes[c]],
          rows |-> [i \in DOMAIN df.rows |->
                      [c \in (DOMAIN df.rows[i]) \ {col} |-> df.rows[i][c]]]]

\* data_repair.py lines 84-85: replace('null', null_substitute), then fillna
SubstituteNull(cell, null_substitute) ==
    IF cell = StrCell(S_null) \/ cell.t = "na" THEN null_substitute ELSE cell

\* float(text) succeeds on the decimal digit strings of the tables below
IsFloatText(text) == Len(text) > 0 /\ Range(text) \subseteq Digits

B_T == <<"T">>

B_F == <<"F">>

B_True == <<"T", "r", "u", "e">>

B_False == <<"F", "a", "l", "s", "e">>

\* a Python bool; v is its repr
BoolCell(b) == [t |-> "bool", v |-> IF b THEN B_True ELSE B_False]

\* a Timestamp; v is the text of its date
DateCell(text) == [t |-> "date", v |-> text]

DigitValue(c) ==
    CASE c = "0" -> 0 [] c = "1" -> 1 [] c = "2" -> 2 [] c = "3" -> 3 [] c = "4" -> 4
      [] c = "5" -> 5 [] c = "6" -> 6 [] c = "7" -> 7 [] c = "8" -> 8 [] c = "9" -> 9

\* the date texts of the tables below are written YYYY-MM-DD; the other
\* strings are not dates
IsDateText(text) ==
    /\ Len(text) = 10
    /\ text[5] = "-" /\ text[8] = "-"
    /\ \A i \in {1, 2, 3, 4, 6, 7, 9, 10} : text[i] \in Digits

\* YYYYMMDD as a number
DateNumber(text) ==
    10000000 * DigitValue(text[1]) + 1000000 * DigitValue(text[2])
      + 100000 * DigitValue(text[3]) + 10000 * DigitValue(text[4])
      + 1000 * DigitValue(text[6]) + 100 * DigitValue(text[7])
      + 10 * DigitValue(text[9]) + DigitValue(text[10])

\* OutOfBoundsDatetime: midnight of the day is outside Timestamp.min..Timestamp.max
\* (1677-09-21 00:12:43 .. 2262-04-11 23:47:16)
OutOfBounds(text) == DateNumber(text) < 16770922 \/ DateNumber(text) > 22620411

\* the rows of column col that pd.to_datetime cannot turn into a Timestamp
DateProblems(rows, col) ==
    {i \in DOMAIN rows :
        /\ rows[i][col].t = "str"
        /\ (~IsDateText(rows[i][col].v) \/ OutOfBounds(rows[i][col].v))}

FirstDateProblem(rows, col) ==
    CHOOSE i \in DateProblems(rows, col) : \A j \in DateProblems(rows, col) : i <= j

\* pd.to_datetime(column) raises an error other than OutOfBoundsDatetime: the
\* first value it cannot convert is not a date at all
DateParseRaises(rows, col) ==
    /\ DateProblems(rows, col) # {}
    /\ ~IsDateText(rows[FirstDateProblem(rows, col)][col].v)

\* data_repair.py lines 27-43 on a whole column, as DataFrame.apply of line 73
\* calls it: the parsed column, or NaT for the whole column when to_datetime
\* raised OutOfBoundsDatetime
safe_date_parse(rows, col) ==
    [i \in DOMAIN rows |->
        IF DateProblems(rows, col) # {} THEN NullCell
        ELSE IF rows[i][col].t = "str" THEN DateCell(rows[i][col].v)
        ELSE rows[i][col]]

\* data_repair.py lines 78-81: replace(bool_map) leaves every other value as it is
ReplaceBool(cell) ==
    IF cell = StrCell(B_T) \/ cell = StrCell(B_True) THEN BoolCell(TRUE)
    ELSE IF cell = StrCell(B_F) \/ cell = StrCell(B_False) THEN BoolCell(FALSE)
    ELSE cell

\* can astype(type_name) convert the cell
CanCast(cell, type_name) ==
    IF type_name = "float64" THEN cell.t = "float" \/ IsFloatText(cell.v)
    ELSE IF type_name = "datetime64[ns]"
         THEN cell.t = "date" \/ (IsDateText(cell.v) /\ ~OutOfBounds(cell.v))
    ELSE TRUE

\* data_repair.py line 86: astype(type_name) on one cell; bool(str) is true
\* for every string that is not empty
Cast(cell, type_name) ==
    IF type_name = "float64" THEN FloatCell(cell.v)
    ELSE IF type_name = "datetime64[ns]" THEN DateCell(cell.v)
    ELSE IF type_name = "bool"
         THEN (IF cell.t = "bool" THEN cell ELSE BoolCell(Len(cell.v) > 0))
    ELSE StrCell(cell.v)

\* data_repair.py lines 72-81: the type-specific step before the null
\* substitution, on one cell of a mapped column
Prepare(rows, i, col, type_name) ==
    IF type_name = "datetime64[ns]" THEN safe_date_parse(rows, col)[i]
    ELSE IF type_name = "bool" THEN ReplaceBool(rows[i][col])
    ELSE rows[i][col]

\* data_repair.py lines 66-86 for one entry of the field map
ConvertFields(df, type_info) ==
    LET fields == Range(type_info.fields)
        filled == [i \in DOMAIN df.rows |->
                     [c \in DOMAIN df.rows[i] |->
                        IF c \in fields
                        THEN SubstituteNull(Prepare(df.rows, i, c, type_info.type_name),
                                            type_info.null_substitute)
                        ELSE df.rows[i][c]]]
    IN  IF ~(fields \subseteq Range(df.columns)) THEN KeyError
        ELSE IF type_info.type_name = "datetime64[ns]"
                /\ \E c \in fields : DateParseRaises(df.rows, c)
             THEN ValueError
        ELSE IF \E i \in DOMAIN filled : \E c \in fields :
                    ~CanCast(filled[i][c], type_info.type_name)
             THEN ValueError
        ELSE [columns |-> df.columns,
              dtypes |-> [c \in DOMAIN df.dtypes |->
                            IF c \in fields THEN type_info.type_name ELSE df.dtypes[c]],
              rows |-> [i \in DOMAIN filled |->
                          [c \in DOMAIN filled[i] |->
                             IF c \in fields
                             THEN Cast(filled[i][c], type_info.type_name)
                             ELSE filled[i][c]]]]

\* data_repair.py lines 46-88: the entries of the field map in order
convert_json_strings_to_python_types(df, field_map) ==
    LET F[k \in 0..Len(field_map)] ==
            IF k = 0 THEN df
            ELSE IF ~IsFrame(F[k - 1]) THEN F[k - 1]
            ELSE ConvertFields(F[k - 1], field_map[k])
    IN  F[Len(field_map)]

\* mutant of data_repair.py lines 115-116: the converted frame is returned
\* whatever the validation says
repair_dataframe_data_NoGate(df, table_name, fields_map) ==
    LET dropped == DropColumn(df, "links")
    IN  IF ~IsFrame(dropped) THEN dropped
        ELSE IF table_name \notin DOMAIN fields_map THEN KeyError
        ELSE convert_json_strings_to_python_types(dropped, fields_map[table_name])

\* data_repair.py lines 91-118: the repaired frame, or the exception raised
repair_dataframe_data(df, table_name, fields_map) ==
    LET dropped == DropColumn(df, "links")
    IN  IF ~IsFrame(dropped) THEN dropped
        ELSE IF table_name \notin DOMAIN fields_map THEN KeyError
        ELSE LET converted == convert_json_strings_to_python_types(
                                  dropped, fields_map[table_name])
             IN  IF ~IsFrame(converted) THEN converted
                 ELSE IF validate_dataframe_data(converted) # <<>>
                      THEN ValidationError(table_name, validate_dataframe_data(converted))
                      ELSE converted

----------------------------------------------------------------------------
(* Step2_repair_raw_data/repair_raw_data.py : main                         *)

\* lines 36-38
customer_facing_transactions == <<"Estimate", "SalesOrd", "CustInvc">>

purchase_order_transactions == <<"PurchOrd">>

other == <<"customer", "vendor", "item">>

\* table names given on the command line; "inventory" is in none of the lists
TableArgs == {"customer", "Estimate", "PurchOrd", "inventory"}

MaxTables == 2

\* a parquet file: the table name and which of its files
LakeFile(name, part) == [name |-> name, part |-> part]

FilesOf(name) ==
    IF name \in Range(other) THEN {LakeFile(name, "table")}
    ELSE IF name \in Range(customer_facing_transactions)
            \/ name \in Range(purchase_order_transactions)
         THEN {LakeFile(name, "transactions"), LakeFile(name, "line_items")}
         ELSE {}

LakeFiles == UNION {FilesOf(name) : name \in TableArgs}

T_link == <<"x">>

T_1001 == <<"1", "0", "0", "1">>

T_SO12 == <<"S", "O", "1", "2">>

T_7 == <<"7">>

T_0 == <<"0">>

T_abc == <<"a", "b", "c">>

T_ok == <<"o", "k">>

RawColumns == <<"links", "tranid", "amount", "memo">>

\* a raw frame: every column is read from parquet as object
RawFrame(rows) ==
    [columns |-> RawColumns,
     dtypes |-> [c \in Range(RawColumns) |-> "object"],
     rows |-> rows]

RawRow(tranid, amount, memo) ==
    [links |-> StrCell(T_link), tranid |-> tranid, amount |-> amount, memo |-> memo]

\* passes validation once "null" is substituted
RawGood ==
    RawFrame(<<RawRow(StrCell(T_1001), StrCell(T_7), StrCell(T_ok)),
               RawRow(StrCell(T_1001), StrCell(S_null), StrCell(T_ok))>>)

\* a null in a column
RawNullMemo ==
    RawFrame(<<RawRow(StrCell(T_1001), StrCell(T_7), NullCell)>>)

\* the null sits in a row whose tranid mixes letters and digits
RawMixedTranid ==
    RawFrame(<<RawRow(StrCell(T_SO12), StrCell(T_7), NullCell),
               RawRow(StrCell(T_1001), StrCell(T_7), StrCell(T_ok))>>)

\* an amount that is not a number
RawBadAmount ==
    RawFrame(<<RawRow(StrCell(T_1001), StrCell(T_abc), StrCell(T_ok))>>)

RawFrames == {RawGood, RawNullMemo, RawMixedTranid, RawBadAmount}

FloatFields ==
    [type_name |-> "float64", fields |-> <<"amount">>, null_substitute |-> FloatCell(T_0)]

StringFields ==
    [type_name |-> "string", fields |-> <<"tranid", "memo">>,
     null_substitute |-> StrCell(S_NotSpecified)]

\* the keys main passes as table_name
FieldMapKeys ==
    {"customer", "vendor", "item", "cust_facing_transaction", "cust_facing_line_item",
     "PurchOrd", "PurchOrd_li"}

\* candidate contents of table_field_types.json: memo is mapped or is not
TableFieldsMaps ==
    {[k \in FieldMapKeys |-> <<FloatFields>>],
     [k \in FieldMapKeys |-> <<FloatFields, StringFields>>]}

\* lines 87-88: str.contains(r'^(?=.*[0-9])(?=.*[a-zA-Z])[a-zA-Z0-9]+$', na=False)
\* on tranid.astype(str); a null reads "nan"
AlphanumericMask(cell) ==
    /\ cell.t # "na"
    /\ Len(cell.v) > 0
    /\ \A i \in DOMAIN cell.v : cell.v[i] \in Digits \/ IsCased(cell.v[i])
    /\ \E i \in DOMAIN cell.v : cell.v[i] \in Digits
    /\ \E i \in DOMAIN cell.v : IsCased(cell.v[i])

\* lines 87-92: the rows whose tranid is not such a mix
DropAlphanumericTranids(df) ==
    [df EXCEPT !.rows = SelectSeq(@, LAMBDA r : ~AlphanumericMask(r.tranid))]

RepairIdle ==
    /\ data_to_convert = <<>>
    /\ table_fields_map = <<>>
    /\ raw_lake = <<>>
    /\ repaired_lake = <<>>
    /\ repair_i = 0
    /\ repair_transactions = NoTable
    /\ repair_line_items = NoTable
    /\ repair_error = NoError
    /\ repair_pc = "idle"

\* the state at line 69: the run holds its list of tables; the raw files the
\* run does not read are left out of the choice
RepairInit ==
    /\ data_to_convert \in SeqUpTo(TableArgs, MaxTables) \ {<<>>}
    /\ table_fields_map \in TableFieldsMaps
    /\ raw_lake \in [LakeFiles -> RawFrames]
    /\ \A f \in LakeFiles : f.name \notin Range(data_to_convert) => raw_lake[f] = RawGood
    /\ repaired_lake = [f \in LakeFiles |-> NoTable]
    /\ repair_i = 1
    /\ repair_transactions = NoTable
    /\ repair_line_items = NoTable
    /\ repair_error = NoError
    /\ repair_pc = "loop"

raw_data_table == data_to_convert[repair_i]

AtTable(names) ==
    /\ repair_pc = "loop"
    /\ repair_i <= Len(data_to_convert)
    /\ raw_data_table \in Range(names)

\* the outcome of a repair_dataframe_data call that assigns local `which`
\* ("transactions" or "line_items"): on success main goes on to next_pc, on
\* an exception the run ends
AfterRepair(result, which, kept_line_items, next_pc) ==
    IF IsFrame(result)
    THEN /\ repair_transactions' = IF which = "transactions" THEN result
                                   ELSE repair_transactions
         /\ repair_line_items' = IF which = "line_items" THEN result
                                 ELSE kept_line_items
         /\ repair_error' = NoError
         /\ repair_pc' = next_pc
    ELSE /\ repair_error' = result
         /\ repair_pc' = "raised"
         /\ UNCHANGED <<repair_transactions, repair_line_items>>

\* save_df_as_parquet_in_data_lake of local df into file f, then go to next_pc
SaveAs(df, f, next_pc) ==
    /\ repaired_lake' = [repaired_lake EXCEPT ![f] = df]
    /\ repair_pc' = next_pc
    /\ UNCHANGED <<data_to_convert, table_fields_map, raw_lake,
                   repair_transactions, repair_line_items, repair_error>>

\* lines 71-76
RepairOther ==
    /\ AtTable(other)
    /\ AfterRepair(repair_dataframe_data(raw_lake[LakeFile(raw_data_table, "table")],
                                         raw_data_table, table_fields_map),
                   "transactions", repair_line_items, "other_save")
    /\ UNCHANGED <<data_to_convert, table_fields_map, raw_lake, repaired_lake, repair_i>>

\* lines 78-80
SaveOther ==
    /\ repair_pc = "other_save"
    /\ SaveAs(repair_transactions, LakeFile(raw_data_table, "table"), "loop")
    /\ repair_i' = repair_i + 1

\* lines 82-96: read both files, filter both, repair the transactions
RepairCustomerFacingTransactions ==
    /\ AtTable(customer_facing_transactions)
    /\ AfterRepair(repair_dataframe_data(
                       DropAlphanumericTranids(
                           raw_lake[LakeFile(raw_data_table, "transactions")]),
                       "cust_facing_transaction", table_fields_map),
                   "transactions",
                   DropAlphanumericTranids(raw_lake[LakeFile(raw_data_table, "line_items")]),
                   "cf_line_items")
    /\ UNCHANGED <<data_to_convert, table_fields_map, raw_lake, repaired_lake, repair_i>>

\* line 97
RepairCustomerFacingLineItems ==
    /\ repair_pc = "cf_line_items"
    /\ AfterRepair(repair_dataframe_data(repair_line_items, "cust_facing_line_item",
                                         table_fields_map),
                   "line_items", repair_line_items, "cf_save")
    /\ UNCHANGED <<data_to_convert, table_fields_map, raw_lake, repaired_lake, repair_i>>

\* lines 100-101
SaveCustomerFacingTransactions ==
    /\ repair_pc = "cf_save"
    /\ SaveAs(repair_transactions, LakeFile(raw_data_table, "transactions"),
              "cf_save_line_items")
    /\ UNCHANGED repair_i

\* lines 102-103
SaveCustomerFacingLineItems ==
    /\ repair_pc = "cf_save_line_items"
    /\ SaveAs(repair_line_items, LakeFile(raw_data_table, "line_items"), "loop")
    /\ repair_i' = repair_i + 1

\* lines 105-111
RepairPurchaseOrderTransactions ==
    /\ AtTable(purchase_order_transactions)
    /\ AfterRepair(repair_dataframe_data(
                       raw_lake[LakeFile(raw_data_table, "transactions")],
                       raw_data_table, table_fields_map),
                   "transactions", raw_lake[LakeFile(raw_data_table, "line_items")],
                   "po_line_items")
    /\ UNCHANGED <<data_to_convert, table_fields_map, raw_lake, repaired_lake, repair_i>>

\* line 112; the key is f"{raw_data_table}_li"
RepairPurchaseOrderLineItems ==
    /\ repair_pc = "po_line_items"
    /\ AfterRepair(repair_dataframe_data(repair_line_items, "PurchOrd_li",
                                         table_fields_map),
                   "line_items", repair_line_items, "po_save")
    /\ UNCHANGED <<data_to_convert, table_fields_map, raw_lake, repaired_lake, repair_i>>

\* lines 115-116
SavePurchaseOrderTransactions ==
    /\ repair_pc = "po_save"
    /\ SaveAs(repair_transactions, LakeFile(raw_data_table, "transactions"),
              "po_save_line_items")
    /\ UNCHANGED repair_i

\* lines 117-118
SavePurchaseOrderLineItems ==
    /\ repair_pc = "po_save_line_items"
    /\ SaveAs(repair_line_items, LakeFile(raw_data_table, "line_items"), "loop")
    /\ repair_i' = repair_i + 1

\* lines 70-118: a name that matches no case is passed over
SkipUnknownTable ==
    /\ repair_pc = "loop"
    /\ repair_i <= Len(data_to_convert)
    /\ raw_data_table \notin Range(other) \cup Range(customer_facing_transactions)
                               \cup Range(purchase_order_transactions)
    /\ repair_i' = repair_i + 1
    /\ UNCHANGED <<data_to_convert, table_fields_map, raw_lake, repaired_lake,
                   repair_transactions, repair_line_items, repair_error, repair_pc>>

\* line 69: the list is exhausted
FinishRepair ==
    /\ repair_pc = "loop"
    /\ repair_i > Len(data_to_convert)
    /\ repair_pc' = "done"
    /\ UNCHANGED <<data_to_convert, table_fields_map, raw_lake, repaired_lake, repair_i,
                   repair_transactions, repair_line_items, repair_error>>

----------------------------------------------------------------------------
(* common/utils/data_repair.py : one call of repair_dataframe_data or of   *)
(* convert_json_strings_to_python_types, seen from its caller              *)

B_true == <<"t", "r", "u", "e">>

B_false == <<"f", "a", "l", "s", "e">>

B_maybe == <<"m", "a", "y", "b", "e">>

N_NULL == <<"N", "U", "L", "L">>

N_Null == <<" ", "N", "u", "l", "l", " ">>

D_2024 == <<"2", "0", "2", "4", "-", "0", "1", "-", "1", "5">>

D_3032 == <<"3", "0", "3", "2", "-", "0", "1", "-", "0", "1">>

D_1800 == <<"1", "8", "0", "0", "-", "0", "1", "-", "0", "1">>

MaxConvRows == 2

ConvColumns == <<"links", "flag", "name", "day">>

ConvRow(flag, name, day) ==
    [links |-> StrCell(T_link), flag |-> flag, name |-> name, day |-> day]

FlagCells ==
    {StrCell(B_T), StrCell(B_True), StrCell(B_true),
     StrCell(B_F), StrCell(B_False), StrCell(B_false), StrCell(B_maybe)}

NameCells == {StrCell(T_ok), StrCell(S_null), StrCell(N_NULL), StrCell(N_Null)}

DayCells == {StrCell(D_2024), StrCell(D_3032), StrCell(T_abc), NullCell}

\* raw rows: one cell at a time departs from the row ("T", "ok", "2024-01-15")
ConvRows ==
    {ConvRow(f, StrCell(T_ok), StrCell(D_2024)) : f \in FlagCells}
      \cup {ConvRow(StrCell(B_T), n, StrCell(D_2024)) : n \in NameCells}
      \cup {ConvRow(StrCell(B_T), StrCell(T_ok), d) : d \in DayCells}

ConvFrames ==
    {[columns |-> ConvColumns,
      dtypes |-> [c \in Range(ConvColumns) |-> "object"],
      rows |-> r] : r \in SeqUpTo(ConvRows, MaxConvRows)}

DateFields ==
    [type_name |-> "datetime64[ns]", fields |-> <<"day">>,
     null_substitute |-> StrCell(D_1800)]

BoolFields ==
    [type_name |-> "bool", fields |-> <<"flag">>, null_substitute |-> BoolCell(FALSE)]

NameFields ==
    [type_name |-> "string", fields |-> <<"name">>,
     null_substitute |-> StrCell(S_NotSpecified)]

\* lists "rate", which is not a column
RateFields ==
    [type_name |-> "string", fields |-> <<"name", "rate">>,
     null_substitute |-> StrCell(S_NotSpecified)]

\* candidate field maps of the table: every column mapped, only flag mapped
\* (day may keep its null), a field that is not a column
ConvFieldMaps ==
    {<<DateFields, BoolFields, NameFields>>, <<BoolFields>>, <<BoolFields, RateFields>>}

\* data_repair.py line 108: drop(..., inplace=True) works on the caller's object
DropLinksInplace(df) ==
    IF IsFrame(DropColumn(df, "links")) THEN DropColumn(df, "links") ELSE df

ConvIdle ==
    /\ conv_df = NoTable
    /\ conv_field_map = <<>>
    /\ conv_df_after = NoTable
    /\ conv_result = NoTable
    /\ conv_fn = "none"
    /\ conv_pc = "idle"

ConvInit ==
    /\ conv_df \in ConvFrames
    /\ conv_field_map \in ConvFieldMaps
    /\ conv_df_after = conv_df
    /\ conv_result = NoTable
    /\ conv_fn = "none"
    /\ conv_pc = "start"

\* repair_dataframe_data(df, "customer", table_fields_map)
CallRepairDataframeData ==
    /\ conv_pc = "start"
    /\ conv_result' = repair_dataframe_data(conv_df, "customer",
                                            [k \in FieldMapKeys |-> conv_field_map])
    /\ conv_df_after' = DropLinksInplace(conv_df)
    /\ conv_fn' = "repair_dataframe_data"
    /\ conv_pc' = "done"
    /\ UNCHANGED <<conv_df, conv_field_map>>

\* convert_json_strings_to_python_types(df, field_map): line 63 copies df
CallConvertJsonStrings ==
    /\ conv_pc = "start"
    /\ conv_result' = convert_json_strings_to_python_types(conv_df, conv_field_map)
    /\ conv_df_after' = conv_df
    /\ conv_fn' = "convert_json_strings_to_python_types"
    /\ conv_pc' = "done"
    /\ UNCHANGED <<conv_df, conv_field_map>>

----------------------------------------------------------------------------
(* common/utils/azure_data_lake_interface.py :                             *)
(* read_file_from_data_lake, read_files_in_batches_from_data_lake          *)
(* A table is the sequence of its records; the listed objects are numbered *)
(* by their position in file_names.                                        *)

MaxFiles == 3

\* the values batch_size and max_workers are called with
BatchSizes == {1, 2}

WorkerCounts == {1, 2}

\* the download or the JSON decoding of the object raises
ReadFailure == [ok |-> FALSE, records |-> <<>>]

\* the object decodes to these records
Readable(records) == [ok |-> TRUE, records |-> records]

\* what a future holds: the returned table, or the exception its task raised
Returned(df) == [raised |-> FALSE, df |-> df]

Raised == [raised |-> TRUE, df |-> <<>>]

\* record number line of the object named name
Record(name, line) == [file |-> name, line |-> line]

\* what an object holds: one record (a header file) or a list of records
ObjectContents(name) ==
    {ReadFailure, Readable(<<Record(name, 1)>>),
     Readable(<<Record(name, 1), Record(name, 2)>>)}

\* mutant of lines 109-112: the exception of a failed read is not caught
read_file_from_data_lake_NoCatch(content) ==
    IF content.ok THEN Returned(content.records) ELSE Raised

\* lines 87-114: the table of the object, the empty table when the read failed
read_file_from_data_lake(content) ==
    IF content.ok THEN Returned(content.records) ELSE Returned(<<>>)

\* line 135: the positions of file_names[i : i + batch_size]
BatchFiles(i, size, names) ==
    {j \in DOMAIN names : i < j /\ j <= i + size}

\* futures that hold a worker thread
Running(fs) == {j \in DOMAIN fs : fs[j].state = "running"}

\* futures submitted to the executor and not yet collected by the caller
Outstanding(fs) == {j \in DOMAIN fs : fs[j].state \in {"queued", "running", "finished"}}

\* mutant of line 137: the executor starts a thread for every queued task
WorkerAvailable_Unbounded(fs, workers) == TRUE

\* line 137: ThreadPoolExecutor(max_workers) runs at most max_workers tasks at a time
WorkerAvailable(fs, workers) == Cardinality(Running(fs)) < workers

\* mutant of lines 143-147: the loop over the batch is left after its first result
BatchCollected_First(fs, batch) ==
    \E j \in batch : fs[j].state = "collected"

\* lines 143-147: as_completed has yielded every future of the batch
BatchCollected(fs, batch) ==
    \A j \in batch : fs[j].state = "collected"

\* mutant of line 150: the collected tables are concatenated last to first
Concat_Reversed(dfs) ==
    LET F[k \in 0..Len(dfs)] == IF k = 0 THEN <<>> ELSE dfs[k] \o F[k - 1]
    IN  F[Len(dfs)]

\* lines 149-153: pd.concat(dataframes, ignore_index=True), or the empty table
Concat(dfs) ==
    LET F[k \in 0..Len(dfs)] == IF k = 0 THEN <<>> ELSE F[k - 1] \o dfs[k]
    IN  F[Len(dfs)]

\* the target path holds no artifact
NoArtifact == [exists |-> FALSE, rows |-> <<>>]

\* mutant of line 236: the upload appends to what the path held
save_df_as_parquet_in_data_lake_Append(artifact, df) ==
    [exists |-> TRUE, rows |-> artifact.rows \o df]

\* lines 204-236: upload_data(..., overwrite=True) replaces what the path held
save_df_as_parquet_in_data_lake(artifact, df) == [exists |-> TRUE, rows |-> df]

BatchIdle ==
    /\ file_names = <<>>
    /\ lake_objects = <<>>
    /\ batch_size = 0
    /\ max_workers = 0
    /\ batch_i = 0
    /\ futures = <<>>
    /\ read_attempts = <<>>
    /\ dataframes = <<>>
    /\ final_df = <<>>
    /\ batch_pc = "idle"
    /\ raw_artifact = NoArtifact
    /\ stage_runs = 0

\* convert_json_to_parquet at line 293: file_names is what
\* get_paths_by_directory listed under the source directory, none when the
\* directory holds no object of its own
BatchInit ==
    /\ \E n \in 0..MaxFiles :
         /\ file_names = [j \in 1..n |-> j]
         /\ lake_objects \in [1..n -> UNION {ObjectContents(j) : j \in 1..n}]
         /\ \A j \in 1..n : lake_objects[j] \in ObjectContents(j)
         /\ futures = [j \in 1..n |-> [state |-> "unsubmitted", result |-> Returned(<<>>)]]
         /\ read_attempts = [j \in 1..n |-> 0]
    /\ batch_size \in BatchSizes
    /\ max_workers \in WorkerCounts
    /\ batch_i = 0
    /\ dataframes = <<>>
    /\ final_df = <<>>
    /\ batch_pc = "convert"
    /\ raw_artifact = NoArtifact
    /\ stage_runs = 0

\* line 293: file_paths[source_directory] is found and
\* read_files_in_batches_from_data_lake is called with it (lines 131-133)
ReadFilesInBatches ==
    /\ batch_pc = "convert"
    /\ file_names # <<>>
    /\ batch_pc' = "loop"
    /\ UNCHANGED <<file_names, lake_objects, batch_size, max_workers, batch_i, futures,
                   read_attempts, dataframes, final_df, raw_artifact, stage_runs>>

\* line 293: a source directory that lists no object is no key of
\* file_paths; the KeyError ends the stage before any read and nothing is
\* saved
RaiseKeyError ==
    /\ batch_pc = "convert"
    /\ file_names = <<>>
    /\ batch_pc' = "key_error"
    /\ UNCHANGED <<file_names, lake_objects, batch_size, max_workers, batch_i, futures,
                   read_attempts, dataframes, final_df, raw_artifact, stage_runs>>

CurrentBatch == BatchFiles(batch_i, batch_size, file_names)

\* lines 134-137: the next batch and a new executor
StartBatch ==
    /\ batch_pc = "loop"
    /\ batch_i < Len(file_names)
    /\ batch_pc' = "submit"
    /\ UNCHANGED <<file_names, lake_objects, batch_size, max_workers, batch_i, futures,
                   read_attempts, dataframes, final_df,
                   raw_artifact, stage_runs>>

\* lines 139-140: executor.submit for the next file of the batch
Submit ==
    /\ batch_pc = "submit"
    /\ \E j \in CurrentBatch :
         /\ futures[j].state = "unsubmitted"
         /\ \A k \in CurrentBatch : k < j => futures[k].state # "unsubmitted"
         /\ futures' = [futures EXCEPT ![j].state = "queued"]
    /\ UNCHANGED <<file_names, lake_objects, batch_size, max_workers, batch_i,
                   read_attempts, dataframes, final_df, batch_pc,
                   raw_artifact, stage_runs>>

\* line 143: every file of the batch is submitted, as_completed begins
BeginCollect ==
    /\ batch_pc = "submit"
    /\ \A j \in CurrentBatch : futures[j].state # "unsubmitted"
    /\ batch_pc' = "collect"
    /\ UNCHANGED <<file_names, lake_objects, batch_size, max_workers, batch_i, futures,
                   read_attempts, dataframes, final_df,
                   raw_artifact, stage_runs>>

\* a worker thread takes the oldest queued task and calls read_file_from_data_lake
StartRead ==
    /\ WorkerAvailable(futures, max_workers)
    /\ \E j \in DOMAIN futures :
         /\ futures[j].state = "queued"
         /\ \A k \in DOMAIN futures : k < j => futures[k].state # "queued"
         /\ futures' = [futures EXCEPT ![j].state = "running"]
         /\ read_attempts' = [read_attempts EXCEPT ![j] = @ + 1]
    /\ UNCHANGED <<file_names, lake_objects, batch_size, max_workers, batch_i,
                   dataframes, final_df, batch_pc,
                   raw_artifact, stage_runs>>

\* read_file_from_data_lake returns in its worker thread
FinishRead ==
    /\ \E j \in Running(futures) :
         futures' = [futures EXCEPT
                        ![j] = [state |-> "finished",
                                result |-> read_file_from_data_lake(lake_objects[j])]]
    /\ UNCHANGED <<file_names, lake_objects, batch_size, max_workers, batch_i,
                   read_attempts, dataframes, final_df, batch_pc,
                   raw_artifact, stage_runs>>

\* lines 143-147: as_completed yields a finished future; result() raises what
\* the task raised
Collect ==
    /\ batch_pc = "collect"
    /\ \E j \in CurrentBatch :
         /\ futures[j].state = "finished"
         /\ futures' = [futures EXCEPT ![j].state = "collected"]
         /\ IF futures[j].result.raised
            THEN /\ batch_pc' = "raised"
                 /\ UNCHANGED dataframes
            ELSE /\ batch_pc' = batch_pc
                 /\ dataframes' = IF futures[j].result.df # <<>>
                                  THEN Append(dataframes, futures[j].result.df)
                                  ELSE dataframes
    /\ UNCHANGED <<file_names, lake_objects, batch_size, max_workers, batch_i,
                   read_attempts, final_df,
                   raw_artifact, stage_runs>>

\* lines 134-137: the executor is shut down, the loop goes to the next batch
EndBatch ==
    /\ batch_pc = "collect"
    /\ BatchCollected(futures, CurrentBatch)
    /\ batch_i' = batch_i + batch_size
    /\ batch_pc' = "loop"
    /\ UNCHANGED <<file_names, lake_objects, batch_size, max_workers, futures,
                   read_attempts, dataframes, final_df,
                   raw_artifact, stage_runs>>

\* lines 149-155
ReturnFinalDf ==
    /\ batch_pc = "loop"
    /\ batch_i >= Len(file_names)
    /\ final_df' = Concat(dataframes)
    /\ batch_pc' = "done"
    /\ UNCHANGED <<file_names, lake_objects, batch_size, max_workers, batch_i, futures,
                   read_attempts, dataframes,
                   raw_artifact, stage_runs>>

\* convert_json_to_parquet lines 293-296: the table read from the objects
\* listed for the directory is saved as the artifact
SaveConsolidated ==
    /\ batch_pc = "done"
    /\ raw_artifact' = save_df_as_parquet_in_data_lake(raw_artifact, final_df)
    /\ stage_runs' = stage_runs + 1
    /\ batch_pc' = "saved"
    /\ UNCHANGED <<file_names, lake_objects, batch_size, max_workers, batch_i, futures,
                   read_attempts, dataframes, final_df>>

\* the consolidation is run a second time on the same source directory
RunConsolidationAgain ==
    /\ batch_pc = "saved"
    /\ stage_runs = 1
    /\ batch_i' = 0
    /\ futures' = [j \in DOMAIN futures |-> [state |-> "unsubmitted", result |-> Returned(<<>>)]]
    /\ read_attempts' = [j \in DOMAIN read_attempts |-> 0]
    /\ dataframes' = <<>>
    /\ final_df' = <<>>
    /\ batch_pc' = "convert"
    /\ UNCHANGED <<file_names, lake_objects, batch_size, max_workers, raw_artifact,
                   stage_runs>>

----------------------------------------------------------------------------
(* Step5_curate_augmented_data/curate_transaction_data.py                  *)
(* A float64 cell is <<"num", n>>, <<"+inf">>, <<"-inf">> or <<"nan">>.     *)

PosInf == <<"+inf">>

NegInf == <<"-inf">>

NaN == <<"nan">>

Num(n) == <<"num", n>>

IsNum(x) == x[1] = "num"

\* IEEE-754 `x > n` for a finite n (false for NaN)
FloatGt(x, n) == IF IsNum(x) THEN x[2] > n ELSE x = PosInf

\* IEEE-754 `x >= n` for a finite n (false for NaN)
FloatGe(x, n) == IF IsNum(x) THEN x[2] >= n ELSE x = PosInf

\* IEEE-754 `x != y` (true when either side is NaN)
FloatNe(x, y) == x = NaN \/ y = NaN \/ x # y

MaxCurateRows == 2

GppValues == {Num(-60), Num(-50), Num(-10), PosInf, NegInf, NaN}

CostValues == {Num(-100), Num(0), Num(100)}

Subsidiaries == {NotSpecified, "East"}

CurateTables ==
    {[i \in DOMAIN f |-> [id |-> i, total_cost |-> f[i][1],
                          gross_profit_percent |-> f[i][2],
                          subsidiary_name |-> f[i][3]]] :
        f \in SeqUpTo(CostValues \X GppValues \X Subsidiaries, MaxCurateRows)}

\* lines 40-43: the boolean mask, row by row
CurateKeep(r) ==
    /\ FloatGt(r.total_cost, 0)
    /\ FloatNe(r.gross_profit_percent, NegInf)
    /\ FloatGe(r.gross_profit_percent, -50)
    /\ r.subsidiary_name # NotSpecified

\* lines 39-46: df[mask] keeps the selected rows, unchanged and in order
curate_line_items(df) == SelectSeq(df, CurateKeep)

CurateIdle ==
    /\ curate_in = <<>>
    /\ curate_out = <<>>
    /\ curate_pc = "idle"

CurateInit ==
    /\ curate_in \in CurateTables
    /\ curate_out = <<>>
    /\ curate_pc = "start"

\* curate_transaction_data.main, line 96
CurateLineItems ==
    /\ curate_pc = "start"
    /\ curate_out' = curate_line_items(curate_in)
    /\ curate_pc' = "done"
    /\ UNCHANGED curate_in

----------------------------------------------------------------------------
(* Step4_augment_clean_data/augment_transaction_data.py :                  *)
(* augment_rows, augment_transactions, augment_line_items                  *)
(* common/utils/data_cleansing.py : set_subsidiary_by_location             *)
(* common/utils/data_repair.py : smart_fillna                              *)
(* common/utils/data_augmentation.py : add_new_category_levels,            *)
(* add_vsi_item_category                                                   *)
(* Rows are records.  Dates are day numbers counted from 2022-01-01.       *)
(* A finite float is Num(n) with n in hundredths; a missing string is      *)
(* NaString, a missing float NaN, a missing date or boolean Null.          *)

\* a missing value of an object/string column
NaString == "<NA>"

\* main, line 295: start_date = "2022-01-01"
StartDate == 0

\* pd.Timestamp("1800-01-01"), 81084 days before 2022-01-01
SentinelDate == -81084

\* a missing datetime64 value (pandas NaT, the least int64), as a day number
\* below every date
NaT == -999999

\* the rows of `right` whose key column equals that of the left row
Matches_on(l, right, key) == {j \in DOMAIN right : right[j][key] = l[key]}

\* the increasing enumeration of a finite set of integers
SortedSeq(S) ==
    LET F[T \in SUBSET S] ==
            IF T = {} THEN <<>>
            ELSE LET m == SetMax(T) IN Append(F[T \ {m}], m)
    IN  F[S]

\* the row r with the columns of s added (or replaced)
Extend(r, s) ==
    [c \in (DOMAIN r) \cup (DOMAIN s) |-> IF c \in DOMAIN s THEN s[c] ELSE r[c]]

\* DataFrame.merge(right, on=key, how="left"): one output row per matching
\* row of `right`, in the order of the left rows; a left row without a match
\* takes the columns of `missing`
LeftMerge(left, right, key, missing) ==
    Concat([i \in DOMAIN left |->
        LET m == SortedSeq(Matches_on(left[i], right, key))
        IN  IF m = <<>>
            THEN <<Extend(left[i], missing)>>
            ELSE [k \in DOMAIN m |-> Extend(left[i], right[m[k]])]])

\* transaction_df[trans_level_cols] of line 198, the flags boxed so that a
\* missing one can stand beside them
TransLevelCols(transaction_df) ==
    [j \in DOMAIN transaction_df |->
        [tranid |-> transaction_df[j].tranid,
         created_date |-> transaction_df[j].created_date,
         commission_only |-> Some(transaction_df[j].commission_only),
         ai_order_type |-> transaction_df[j].ai_order_type,
         entered_by |-> transaction_df[j].entered_by]]

\* line 199: merge(transaction_df[trans_level_cols], on="tranid", how="left")
MergeTransactions(line_item_df, transaction_df) ==
    LeftMerge(line_item_df, TransLevelCols(transaction_df), "tranid",
              [created_date |-> NaT, commission_only |-> Null,
               ai_order_type |-> NaString, entered_by |-> NaString])

\* line 200: created_date.fillna(Timestamp("1800-01-01"))
FillCreatedDate(rows) ==
    [i \in DOMAIN rows |->
        [rows[i] EXCEPT !.created_date = IF @ = NaT THEN SentinelDate ELSE @]]

\* line 203: the rows with start_date <= created_date <= end_date (a
\* comparison with NaT is False)
InDateRange(r, start_date, end_date) ==
    /\ r.created_date # NaT
    /\ r.created_date >= start_date /\ r.created_date <= end_date

FilterDateRange(rows, start_date, end_date) ==
    LET keep == SortedSeq({i \in DOMAIN rows : InDateRange(rows[i], start_date, end_date)})
    IN  [k \in DOMAIN keep |-> rows[keep[k]]]

\* data_cleansing.py lines 257-262: where(location == null_value,
\* subsidiary_name, location.map(location_map)); a location that is not a key
\* of the map gives a missing value
set_subsidiary_by_location(rows, location_map) ==
    [i \in DOMAIN rows |->
        [rows[i] EXCEPT !.subsidiary_name =
            IF rows[i].location = NotSpecified THEN @
            ELSE IF rows[i].location \in DOMAIN location_map
                 THEN location_map[rows[i].location]
                 ELSE NaString]]

\* lines 55-60: customer_df[cols]; company_name is taken only when the table
\* does not have it yet
CustomerInfoCols(df, customer_df) ==
    [j \in DOMAIN customer_df |->
        [c \in {"customer_id", "subsidiary_name", "end_market", "sales_rep"}
                 \cup (IF df # <<>> /\ "company_name" \in DOMAIN df[1]
                       THEN {} ELSE {"company_name"})
            |-> customer_df[j][c]]]

\* lines 54-67
augment_rows(df, customer_df, location_map) ==
    LET cols == CustomerInfoCols(df, customer_df)
        missing == [c \in {"subsidiary_name", "end_market", "sales_rep"}
                            \cup (IF df # <<>> /\ "company_name" \in DOMAIN df[1]
                                  THEN {} ELSE {"company_name"})
                       |-> NaString]
    IN  set_subsidiary_by_location(LeftMerge(df, cols, "customer_id", missing),
                                   location_map)

\* the dtype of each column of the augmented tables
FloatColumns ==
    {"quantity", "unit_price", "quote_po_rate", "net_amount", "total_amount", "total_cost",
     "gross_profit", "gross_profit_percent", "highest_recent_cost",
     "highest_quoted_cost", "highest_cost"}

DatetimeColumns == {"created_date"}

\* the int64 and bool columns: their dtype has no missing value, so isna()
\* counts none and the column is left as it is
FullColumns == {"id", "commission_only", "commission_or_mfr_direct"}

\* data_repair.py lines 141-157: the value a missing cell of the column is
\* filled with: 1800-01-01 in a datetime column, 0 in a float column,
\* "Not Specified" in a string column
FillValue(col, v) ==
    IF col \in DatetimeColumns THEN (IF v = NaT THEN SentinelDate ELSE v)
    ELSE IF col \in FullColumns THEN v
    ELSE IF col \in FloatColumns THEN (IF v = NaN THEN Num(0) ELSE v)
    ELSE IF v = NaString THEN NotSpecified ELSE v

\* data_repair.py lines 121-159
smart_fillna(rows) ==
    [i \in DOMAIN rows |-> [c \in DOMAIN rows[i] |-> FillValue(c, rows[i][c])]]

\* mutant of line 90: the table is returned as augment_rows left it
augment_transactions_NoFill(df, customer_df, location_map) ==
    augment_rows(df, customer_df, location_map)

\* lines 87-92
augment_transactions(df, customer_df, location_map) ==
    smart_fillna(augment_rows(df, customer_df, location_map))

\* the six category columns
LevelColumns ==
    {"level_1_category", "level_2_category", "level_3_category",
     "level_4_category", "level_5_category", "level_6_category"}

\* data_augmentation.py lines 44-46: the new columns, all "Not Specified"
AddLevelColumns(rows) ==
    [i \in DOMAIN rows |->
        Extend(rows[i], [c \in {"level_4_category", "level_5_category", "level_6_category"}
                            |-> NotSpecified])]

\* data_augmentation.py lines 57-62 and 101-106: DataFrame.update on the sku
\* index: a row whose sku is in the lookup takes, column by column, the
\* lookup's value unless that value is missing
UpdateBySku(rows, lookup, columns) ==
    [i \in DOMAIN rows |->
        LET m == Matches_on(rows[i], lookup, "sku")
        IN  IF m = {} THEN rows[i]
            ELSE LET j == CHOOSE k \in m : TRUE
                 IN  [c \in DOMAIN rows[i] |->
                        IF c \in columns /\ lookup[j][c] # NaString
                        THEN lookup[j][c] ELSE rows[i][c]]]

\* mutant of data_augmentation.py line 65: level 1 is left as it is
ReplaceValve_Kept(rows) == rows

\* data_augmentation.py line 65: level_1_category.replace("Valve", "Valves")
ReplaceValve(rows) ==
    [i \in DOMAIN rows |->
        [rows[i] EXCEPT !.level_1_category = IF @ = "Valve" THEN "Valves" ELSE @]]

\* data_augmentation.py lines 18-67 (the order of the columns is not modelled)
add_new_category_levels(df, level_info) ==
    ReplaceValve(UpdateBySku(AddLevelColumns(df), level_info, LevelColumns))

\* data_augmentation.py lines 70-108
add_vsi_item_category(df, item_master) ==
    UpdateBySku([i \in DOMAIN df |-> Extend(df[i], [vsi_item_category |-> NotSpecified])],
                item_master, {"vsi_item_category"})

\* lines 209-213: the combined commission flag; commission_only is dropped
CommissionOrMfrDirect(rows) ==
    [i \in DOMAIN rows |->
        [c \in ((DOMAIN rows[i]) \ {"commission_only"}) \cup {"commission_or_mfr_direct"} |->
            IF c = "commission_or_mfr_direct"
            THEN \/ rows[i].commission_only = Some(TRUE)
                 \/ rows[i].ai_order_type \in {"Commission Order", "Manufacturer Direct"}
            ELSE rows[i][c]]]

\* In this stage Num(n) is the float64 cell written n / 10000, an amount of
\* two decimals. A computed cell keeps, after its tag, the exact value of the
\* expression in the same unit and then the cells it was computed from, since
\* the double it holds depends on them (0.35 * 3.5 is below 1.225, the
\* literal 1.225 is above); a quotient keeps the exact values of gross
\* profit and total amount.
Amount(cents) == Num(100 * cents)

\* IEEE-754 product, difference and quotient of the float columns; the
\* cells read from the table are finite and not negative zero
FloatMul(x, y) == <<"mul", (x[2] * y[2]) \div 10000, x, y>>

FloatSub(x, y) == <<"sub", x[2] - y[2], x, y>>

\* the sign bit of the double a finite cell holds: a product has the sign
\* of its factors also when it is zero (-2.0 * 0.0 is -0.0); a difference
\* that is zero is +0.0 unless it is -0.0 - +0.0; a quotient has the sign of
\* the dividend times the sign of the divisor
RECURSIVE SignBit(_)
SignBit(x) ==
    IF x[1] = "ratio"
    THEN IF x[2] # 0 THEN (x[2] < 0) # (x[3] < 0) ELSE SignBit(x[4]) # SignBit(x[5])
    ELSE IF x[2] # 0 THEN x[2] < 0
    ELSE IF x[1] = "mul" THEN SignBit(x[3]) # SignBit(x[4])
    ELSE IF x[1] = "sub" THEN x[3][2] = 0 /\ SignBit(x[3]) /\ ~SignBit(x[4])
    ELSE FALSE

\* line 223: (x / y) * 100; a non-zero x over a zero y is the infinity of
\* the sign of x times the sign of the zero
FloatDivTimes100(x, y) ==
    IF y[2] # 0 THEN <<"ratio", x[2], y[2], x, y>>
    ELSE IF x[2] = 0 THEN NaN
    ELSE IF SignBit(x) # SignBit(y) THEN NegInf ELSE PosInf

\* the double a finite cell holds
RECURSIVE DoubleValue(_)
DoubleValue(x) ==
    IF x[1] = "num" THEN DoubleOf[x[2], 10000]
    ELSE IF x[1] = "mul" THEN DoubleMul[DoubleValue(x[3]), DoubleValue(x[4])]
    ELSE IF x[1] = "sub" THEN DoubleSub[DoubleValue(x[3]), DoubleValue(x[4])]
    ELSE DoubleMul[DoubleDiv[DoubleValue(x[4]), DoubleValue(x[5])], DoubleOf[100, 1]]

\* the integer nearest to n / d for d # 0 when n / d is not halfway between
\* two integers
NearestDiv(n, d) ==
    IF d > 0 THEN (n \div d) + (IF 2 * (n % d) > d THEN 1 ELSE 0)
    ELSE ((0 - n) \div (0 - d)) + (IF 2 * ((0 - n) % (0 - d)) > 0 - d THEN 1 ELSE 0)

\* n / d lies halfway between two integers (d # 0)
HalfwayDiv(n, d) ==
    IF d > 0 THEN 2 * (n % d) = d ELSE 2 * ((0 - n) % (0 - d)) = 0 - d

\* the exact value of a finite cell lies halfway between two hundredths
HalfwayCase(x) ==
    IF x[1] = "ratio" THEN HalfwayDiv(10000 * x[2], x[3])
    ELSE x[2] % 100 = 50

\* lines 220-223
Financials(rows) ==
    [i \in DOMAIN rows |->
        LET total_amount == FloatMul(rows[i].quantity, rows[i].unit_price)
            total_cost == FloatMul(rows[i].quantity, rows[i].quote_po_rate)
            gross_profit == FloatSub(total_amount, total_cost)
        IN  Extend(rows[i],
                   [total_amount |-> total_amount, total_cost |-> total_cost,
                    gross_profit |-> gross_profit,
                    gross_profit_percent |-> FloatDivTimes100(gross_profit, total_amount)])]

\* the rows as get_highest_recent_prices reads them: the index of line 125 is
\* the RangeIndex left by the reset_index of add_vsi_item_category
AsTargets(rows) ==
    [i \in DOMAIN rows |-> [index |-> i - 1, id |-> i, sku |-> rows[i].sku,
                            created_date |-> rows[i].created_date]]

\* the price rows of a table, price_col being its column of prices
AsPrices(rows, price_col) ==
    [i \in DOMAIN rows |-> [sku |-> rows[i].sku, created_date |-> rows[i].created_date,
                            unit_price |-> rows[i][price_col][2]]]

\* the column output_col of the result of get_highest_recent_prices
WithOutput(rows, result, output_col) ==
    [i \in DOMAIN rows |->
        Extend(rows[i],
               [c \in {output_col} |->
                    IF result[i].output = Null THEN NaN ELSE Num(result[i].output[1])])]

\* lines 227-229: every table the two calls can return
HighestPrices(rows, purchase_order_df) ==
    {WithOutput(WithOutput(rows, recent, "highest_recent_cost"), quoted, "highest_quoted_cost") :
        recent \in get_highest_recent_prices(AsTargets(rows),
                                             AsPrices(purchase_order_df, "unit_price")),
        quoted \in get_highest_recent_prices(AsTargets(rows),
                                             AsPrices(rows, "quote_po_rate"))}

\* line 232: max(axis=1) skips a missing value
HighestCost(rows) ==
    [i \in DOMAIN rows |->
        LET q == rows[i].highest_quoted_cost
            r == rows[i].highest_recent_cost
        IN  Extend(rows[i],
                   [highest_cost |->
                        IF q = NaN THEN r
                        ELSE IF r = NaN THEN q
                        ELSE IF q[2] >= r[2] THEN q ELSE r])]

\* round(2) of a float64 cell, rint(x * 100) / 100: NaN and the infinities
\* are left as they are. Away from a halfway case the double and the exact
\* value are within 1e-9 of each other and more than that from the halfway
\* point, so both round to the same hundredth; a halfway case goes the way
\* the double and its product with 100 fall.
RoundFloat(x) ==
    IF x[1] \in {"nan", "+inf", "-inf"} THEN x
    ELSE IF HalfwayCase(x) THEN Num(100 * DoubleRoundedCents[DoubleValue(x)])
    ELSE IF x[1] = "ratio" THEN Num(100 * NearestDiv(10000 * x[2], x[3]))
    ELSE Num(100 * NearestDiv(x[2], 100))

\* line 235: round_float_columns
RoundFloatColumns(rows) ==
    [i \in DOMAIN rows |->
        [c \in DOMAIN rows[i] |->
            IF c \in FloatColumns THEN RoundFloat(rows[i][c]) ELSE rows[i][c]]]

\* lines 241-252: quote_po_rate is renamed unit_cost (the columns of
\* new_col_order that the model does not carry pass through unchanged)
RenameUnitCost(rows) ==
    [i \in DOMAIN rows |-> RenameCol(rows[i], "quote_po_rate", "unit_cost")]

\* mutant of lines 237-238: missing values are left in the table
augment_line_items_NoFill(line_item_df, transaction_df, item_master_df, purchase_order_df, customer_df, location_map, start_date, end_date) ==
    LET dated == FilterDateRange(FillCreatedDate(MergeTransactions(line_item_df, transaction_df)),
                                 start_date, end_date)
        flagged == CommissionOrMfrDirect(augment_rows(dated, customer_df, location_map))
        levelled == add_vsi_item_category(add_new_category_levels(flagged, item_master_df),
                                          item_master_df)
    IN  {RenameUnitCost(RoundFloatColumns(HighestCost(priced))) :
            priced \in HighestPrices(Financials(levelled), purchase_order_df)}

\* lines 197-254: every table the call can return
augment_line_items(line_item_df, transaction_df, item_master_df, purchase_order_df, customer_df, location_map, start_date, end_date) ==
    LET dated == FilterDateRange(FillCreatedDate(MergeTransactions(line_item_df, transaction_df)),
                                 start_date, end_date)
        flagged == CommissionOrMfrDirect(augment_rows(dated, customer_df, location_map))
        levelled == add_vsi_item_category(add_new_category_levels(flagged, item_master_df),
                                          item_master_df)
    IN  {RenameUnitCost(smart_fillna(RoundFloatColumns(HighestCost(priced)))) :
            priced \in HighestPrices(Financials(levelled), purchase_order_df)}

\* location_subsidiary_map.json["locations_subsidiary_map"]
LocationSubsidiaryMap == [l \in {"Houston", "Tulsa"} |-> IF l = "Houston" THEN "West" ELSE "Central"]

MaxAugRows == 2

\* cleaned customers: the second table has a customer without a subsidiary
AugCustomer(id, subsidiary) ==
    [customer_id |-> id, subsidiary_name |-> subsidiary, end_market |-> "Energy",
     sales_rep |-> "Ann", company_name |-> "Acme"]

AugCustomerTables ==
    {<<AugCustomer("C1", "East")>>,
     <<AugCustomer("C2", NotSpecified), AugCustomer("C1", "East")>>}

\* cleaned transactions: the customer is known or not, the location is the
\* sentinel, a key of the map or another name
TranId(n) == <<"T1", "T2", "T3", "T4">>[n]

AugTransaction(n, customer_id, location, day) ==
    [id |-> n, tranid |-> TranId(n), created_date |-> day, commission_only |-> FALSE,
     ai_order_type |-> "Standard", entered_by |-> "Bob", customer_id |-> customer_id,
     location |-> location, company_name |-> "Acme"]

AugTransactionTables ==
    {[i \in DOMAIN f |-> AugTransaction(i, f[i][1], f[i][2], 0)] :
        f \in SeqUpTo({"C1", "C2", "C9"} \X {NotSpecified, "Houston", "Tulsa", "Mars"},
                      MaxAugRows)}

AugIdle ==
    /\ aug_df = <<>>
    /\ aug_transactions = <<>>
    /\ aug_customers = <<>>
    /\ aug_items = <<>>
    /\ aug_purchase_orders = <<>>
    /\ aug_end_date = 0
    /\ aug_result = <<>>
    /\ aug_pc = "idle"

\* main, lines 285-311: the tables augment_transactions is called with
AugTransInit ==
    /\ aug_df \in AugTransactionTables
    /\ aug_customers \in AugCustomerTables
    /\ aug_transactions = <<>>
    /\ aug_items = <<>>
    /\ aug_purchase_orders = <<>>
    /\ aug_end_date = 0
    /\ aug_result = <<>>
    /\ aug_pc = "start"

\* main, line 313
AugmentTransactions ==
    /\ aug_pc = "start"
    /\ aug_result' = augment_transactions(aug_df, aug_customers, LocationSubsidiaryMap)
    /\ aug_pc' = "done"
    /\ UNCHANGED <<aug_df, aug_transactions, aug_customers, aug_items,
                   aug_purchase_orders, aug_end_date>>

\* a row of the category lookup / of the enhanced item master
AugItem(sku, level_1, level_4) ==
    [sku |-> sku, level_1_category |-> level_1, level_2_category |-> "Ball",
     level_3_category |-> "Steel", level_4_category |-> level_4,
     level_5_category |-> NotSpecified, level_6_category |-> NotSpecified,
     vsi_item_category |-> "Flow"]

AugItemTables ==
    {<<>>,
     <<AugItem("X1", "Valve", "Two-piece")>>,
     <<AugItem("X2", "Pumps", NotSpecified), AugItem("X1", "Fittings", "Elbow")>>}

\* cleaned item rows: the sku is in the lookup or not, level 1 is the old
\* "Valve" or another category
CleanedItem(n, sku, level_1) ==
    [id |-> n, sku |-> sku, level_1_category |-> level_1,
     level_2_category |-> "Gate", level_3_category |-> "Brass"]

CleanedItemTables ==
    {[i \in DOMAIN f |-> CleanedItem(i, f[i][1], f[i][2])] :
        f \in SeqUpTo({"X1", "X2", "X9"} \X {"Valve", "Pumps"}, MaxAugRows)}

\* augment_item_data.main, lines 22-26
LevelsInit ==
    /\ aug_df \in CleanedItemTables
    /\ aug_items \in AugItemTables
    /\ aug_customers = <<>>
    /\ aug_transactions = <<>>
    /\ aug_purchase_orders = <<>>
    /\ aug_end_date = 0
    /\ aug_result = <<>>
    /\ aug_pc = "start"

\* augment_item_data.main, line 29
AddNewCategoryLevels ==
    /\ aug_pc = "start"
    /\ aug_result' = add_new_category_levels(aug_df, aug_items)
    /\ aug_pc' = "done"
    /\ UNCHANGED <<aug_df, aug_transactions, aug_customers, aug_items,
                   aug_purchase_orders, aug_end_date>>

\* cleaned line items, amounts in cents: the base row and the rows that differ
\* from it in one cell: another transaction, no transaction, another sku,
\* quantity 0, unit price 0, another cost; and a row whose total amount
\* 0.10 * 0.04 and total cost 0.10 * 0.01 are below half a cent
AugLineItem(tranid, sku, quantity, unit_price, quote_po_rate) ==
    [tranid |-> tranid, sku |-> sku, customer_id |-> "C1", location |-> "Houston",
     quantity |-> Amount(quantity), unit_price |-> Amount(unit_price),
     quote_po_rate |-> Amount(quote_po_rate), level_1_category |-> "Valve",
     level_2_category |-> "Gate", level_3_category |-> "Brass"]

AugLineItemRows ==
    {AugLineItem("T1", "X1", 200, 300, 100),
     AugLineItem("T2", "X1", 200, 300, 100),
     AugLineItem("T9", "X1", 200, 300, 100),
     AugLineItem("T1", "X2", 200, 300, 100),
     AugLineItem("T1", "X1", 0, 300, 100),
     AugLineItem("T1", "X1", 200, 0, 100),
     AugLineItem("T1", "X1", 200, 300, 400),
     AugLineItem("T1", "X1", 10, 4, 1)}

\* a row whose total amount 0.50 * 2.45 and gross profit 1.225 - 0.50 lie
\* halfway between two cents, and a row whose gross profit percent
\* 0.01 / 0.32 * 100 lies halfway between two hundredths
AugHalfwayRows ==
    {AugLineItem("T1", "X1", 50, 245, 100),
     AugLineItem("T1", "X1", 100, 32, 31)}

\* rows of negative quantity: one whose total amount -2.00 * 0.00 is -0.0,
\* under a gross profit of 2.00, and one with a negative total amount
AugNegativeRows ==
    {AugLineItem("T1", "X1", 0 - 200, 0, 100),
     AugLineItem("T1", "X1", 0 - 200, 300, 100)}

\* more rows with a product below half a cent: a total amount 0.10 * 0.04
\* under a total cost 0.10 * 4.00, the same with a negative quantity, and a
\* total amount 0.10 * 0.00 over the total cost 0.10 * 0.04
AugSmallRows ==
    {AugLineItem("T1", "X1", 10, 4, 400),
     AugLineItem("T1", "X1", 0 - 10, 4, 400),
     AugLineItem("T1", "X1", 10, 0, 4)}

\* the financial columns of a row are computed from that row alone, so the
\* halfway rows, the negative rows and the small rows are given in tables of
\* one row
AugLineItemTables ==
    {[i \in DOMAIN f |-> Extend(f[i], [id |-> i])] :
        f \in SeqUpTo(AugLineItemRows, MaxAugRows)
                \cup {<<r>> : r \in AugHalfwayRows \cup AugNegativeRows \cup AugSmallRows}}

\* augmented transactions T1 and T2, a year apart or on the same day
AugHeaderTables ==
    {<<AugTransaction(1, "C1", "Houston", 0), AugTransaction(2, "C1", "Houston", WindowDays)>>,
     <<AugTransaction(1, "C1", "Houston", WindowDays), AugTransaction(2, "C1", "Houston", 0)>>,
     <<AugTransaction(1, "C1", "Houston", 0), AugTransaction(2, "C1", "Houston", 0)>>}

\* end_date: the day of the later transactions or the day before
AugEndDates == {WindowDays - 1, WindowDays}

\* enhanced purchase order lines
AugPurchaseOrderLine(sku, day, unit_price) ==
    [sku |-> sku, created_date |-> day, unit_price |-> Amount(unit_price)]

AugPurchaseOrderTables ==
    {<<>>,
     <<AugPurchaseOrderLine("X1", 0, 500)>>,
     <<AugPurchaseOrderLine("X1", 0, 50), AugPurchaseOrderLine("X2", WindowDays, 900)>>}

\* main, lines 285-315: the tables augment_line_items is called with
AugInit ==
    /\ aug_df \in AugLineItemTables
    /\ aug_transactions \in AugHeaderTables
    /\ aug_customers \in AugCustomerTables
    /\ aug_items \in AugItemTables
    /\ aug_purchase_orders \in AugPurchaseOrderTables
    /\ aug_end_date \in AugEndDates
    /\ aug_result = <<>>
    /\ aug_pc = "start"

\* main, lines 314-315
AugmentLineItems ==
    /\ aug_pc = "start"
    /\ aug_result' \in augment_line_items(aug_df, aug_transactions, aug_items,
                                          aug_purchase_orders, aug_customers,
                                          LocationSubsidiaryMap, StartDate, aug_end_date)
    /\ aug_pc' = "done"
    /\ UNCHANGED <<aug_df, aug_transactions, aug_customers, aug_items,
                   aug_purchase_orders, aug_end_date>>

----------------------------------------------------------------------------
(* get_transactions_and_line_items, azure_data_lake_interface.py lines 299-340 *)

fetchVars == <<fetch_trans_type, fetch_requested, fetch_lake, data_state, fetch_reads,
               fetch_transactions, fetch_line_items, fetch_error, fetch_pc>>

ResourceNotFoundError == [error |-> "ResourceNotFoundError"]

\* line 320
TransTypes == {"Estimate", "SalesOrd", "PurchOrd", "CustInvc"}

\* the tiers of the lake, as strings of characters
RawState == <<"r", "a", "w">>

CleanedState == <<"c", "l", "e", "a", "n", "e", "d">>

EnhancedState == <<"e", "n", "h", "a", "n", "c", "e", "d">>

DataStates == {RawState, CleanedState, EnhancedState}

\* f"{data_state}/netsuite/transaction/{trans_type}_{data_state}.parquet"
TransactionsPath(trans_type, state) ==
    [tier |-> state, trans_type |-> trans_type, kind |-> "transactions"]

\* f"{data_state}/netsuite/transaction/{trans_type}ItemLineItems_{data_state}.parquet"
LineItemsPath(trans_type, state) ==
    [tier |-> state, trans_type |-> trans_type, kind |-> "line_items"]

NoPath == [tier |-> <<>>, trans_type |-> "", kind |-> "none"]

\* mutant of lines 337-338: the line items are read from the tier asked for
LineItemState_Requested(requested, state) == LowerCase(requested)

\* lines 337-338: the line items are read from the local data_state
LineItemState(requested, state) == state

FetchIdle ==
    /\ fetch_trans_type = ""
    /\ fetch_requested = <<>>
    /\ fetch_lake = {}
    /\ data_state = <<>>
    /\ fetch_reads = <<>>
    /\ fetch_transactions = NoPath
    /\ fetch_line_items = NoPath
    /\ fetch_error = NoError
    /\ fetch_pc = "idle"

\* the arguments of a call and the artifacts of that transaction type in the lake
FetchInit ==
    /\ fetch_trans_type \in TransTypes \cup {"Invoice"}
    /\ fetch_requested \in DataStates \cup {<<"C", "l", "e", "a", "n", "e", "d">>,
                                            <<"E", "N", "H", "A", "N", "C", "E", "D">>}
    /\ fetch_lake \in SUBSET ({TransactionsPath(fetch_trans_type, s) : s \in DataStates}
                                \cup {LineItemsPath(fetch_trans_type, s) : s \in DataStates})
    /\ data_state = fetch_requested
    /\ fetch_reads = <<>>
    /\ fetch_transactions = NoPath
    /\ fetch_line_items = NoPath
    /\ fetch_error = NoError
    /\ fetch_pc = "start"

\* lines 320-323
CheckTransType ==
    /\ fetch_pc = "start"
    /\ IF fetch_trans_type \notin TransTypes
       THEN /\ fetch_error' = ValueError
            /\ fetch_pc' = "raised"
            /\ UNCHANGED data_state
       ELSE /\ data_state' = LowerCase(data_state)
            /\ fetch_pc' = "transactions"
            /\ UNCHANGED fetch_error
    /\ UNCHANGED <<fetch_trans_type, fetch_requested, fetch_lake, fetch_reads,
                   fetch_transactions, fetch_line_items>>

\* lines 326-335: the header of the tier; a missing enhanced header falls back
ReadTransactions ==
    /\ fetch_pc = "transactions"
    /\ LET path == TransactionsPath(fetch_trans_type, data_state)
       IN  /\ fetch_reads' = Append(fetch_reads, path)
           /\ IF path \in fetch_lake
              THEN /\ fetch_transactions' = path
                   /\ fetch_pc' = "line_items"
                   /\ UNCHANGED <<data_state, fetch_error>>
              ELSE IF data_state = EnhancedState
              THEN /\ data_state' = CleanedState
                   /\ fetch_pc' = "fallback"
                   /\ UNCHANGED <<fetch_transactions, fetch_error>>
              ELSE /\ fetch_error' = ResourceNotFoundError
                   /\ fetch_pc' = "raised"
                   /\ UNCHANGED <<data_state, fetch_transactions>>
    /\ UNCHANGED <<fetch_trans_type, fetch_requested, fetch_lake, fetch_line_items>>

\* lines 330-332: the cleaned header, read in the except branch
ReadCleanedTransactions ==
    /\ fetch_pc = "fallback"
    /\ LET path == TransactionsPath(fetch_trans_type, data_state)
       IN  /\ fetch_reads' = Append(fetch_reads, path)
           /\ IF path \in fetch_lake
              THEN /\ fetch_transactions' = path
                   /\ fetch_pc' = "line_items"
                   /\ UNCHANGED fetch_error
              ELSE /\ fetch_error' = ResourceNotFoundError
                   /\ fetch_pc' = "raised"
                   /\ UNCHANGED fetch_transactions
    /\ UNCHANGED <<fetch_trans_type, fetch_requested, fetch_lake, data_state,
                   fetch_line_items>>

\* lines 337-340
ReadLineItems ==
    /\ fetch_pc = "line_items"
    /\ LET path == LineItemsPath(fetch_trans_type,
                                 LineItemState(fetch_requested, data_state))
       IN  /\ fetch_reads' = Append(fetch_reads, path)
           /\ IF path \in fetch_lake
              THEN /\ fetch_line_items' = path
                   /\ fetch_pc' = "returned"
                   /\ UNCHANGED fetch_error
              ELSE /\ fetch_error' = ResourceNotFoundError
                   /\ fetch_pc' = "raised"
                   /\ UNCHANGED fetch_line_items
    /\ UNCHANGED <<fetch_trans_type, fetch_requested, fetch_lake, data_state,
                   fetch_transactions>>

----------------------------------------------------------------------------
(* The task runners: Step3_clean_raw_data/tasks.py and
   Step4_augment_clean_data/tasks.py, and the artifacts their scripts read
   and write *)

taskVars == <<task_lake, task_written, task_runner, task_i, task_step, task_status, task_reads>>

\* the transaction types of clean_transaction_data.py line 114 and
\* augment_transaction_data.py line 299
CustomerFacingTypes == <<"Estimate", "SalesOrd", "CustInvc">>

\* the header and the line-item artifact of each type of a list, in a tier
TransactionArtifacts(types, tier) ==
    LET F[k \in 0..Len(types)] ==
            IF k = 0 THEN <<>>
            ELSE F[k - 1] \o <<"transaction/" \o types[k] \o "_" \o tier,
                               "transaction/" \o types[k] \o "ItemLineItems_" \o tier>>
    IN  F[Len(types)]

\* Step3 tasks.py lines 4-23: the pre-tasks in the order listed, then the body
Step3Tasks ==
    <<"clean_customer_data", "clean_item_data", "clean_vendor_data",
      "clean_transaction_data", "clean_purchase_order_data">>

\* Step4 tasks.py lines 4-15
Step4Tasks ==
    <<"augment_item_data", "augment_purchase_order_data", "augment_transaction_data">>

Tasks(runner) == IF runner = "Step3" THEN Step3Tasks ELSE Step4Tasks

\* the artifact of clean_new_category_level_data.py lines 56-57, a script
\* that neither tasks.py runs
NewItemCategories == "new_item_categories"

ReadStep(artifact) == [op |-> "read", artifact |-> artifact]

SaveStep(artifact) == [op |-> "save", artifact |-> artifact]

StepsOf(op, artifacts) == [k \in DOMAIN artifacts |-> [op |-> op, artifact |-> artifacts[k]]]

\* the loop over the transaction types of clean_transaction_data.py lines
\* 119-138 and augment_transaction_data.py lines 304-321: for each type the
\* header and the line items are read from one tier and then saved in the next
TypeLoopSteps(types, source_tier, target_tier) ==
    LET F[k \in 0..Len(types)] ==
            IF k = 0 THEN <<>>
            ELSE F[k - 1]
                   \o StepsOf("read", TransactionArtifacts(<<types[k]>>, source_tier))
                   \o StepsOf("save", TransactionArtifacts(<<types[k]>>, target_tier))
    IN  F[Len(types)]

\* the downloads and the saves of a script, in the order of its calls
TaskSteps(script) ==
    CASE script = "clean_customer_data" ->
            StepsOf("read", <<"customer_repaired", "transaction/Estimate_repaired",
                              "transaction/SalesOrd_repaired",
                              "transaction/CustInvc_repaired">>)
                \o <<SaveStep("customer_cleaned")>>
      [] script = "clean_item_data" ->
            <<ReadStep("item_repaired"), SaveStep("item_cleaned")>>
      [] script = "clean_vendor_data" ->
            <<ReadStep("vendor_repaired"), SaveStep("vendor_cleaned")>>
      [] script = "clean_transaction_data" ->
            <<ReadStep("item_repaired")>>
                \o TypeLoopSteps(CustomerFacingTypes, "repaired", "cleaned")
      [] script = "clean_purchase_order_data" ->
            TypeLoopSteps(<<"PurchOrd">>, "repaired", "cleaned")
      [] script = "augment_item_data" ->
            <<ReadStep("item_cleaned"), ReadStep(NewItemCategories),
              SaveStep("item_enhanced")>>
      [] script = "augment_purchase_order_data" ->
            StepsOf("read", TransactionArtifacts(<<"PurchOrd">>, "cleaned")
                                \o <<"vendor_cleaned", "item_enhanced">>)
                \o <<SaveStep("transaction/PurchOrdItemLineItems_enhanced")>>
      [] script = "augment_transaction_data" ->
            StepsOf("read", <<"customer_cleaned", "item_enhanced",
                              "transaction/PurchOrdItemLineItems_enhanced">>)
                \o TypeLoopSteps(CustomerFacingTypes, "cleaned", "enhanced")

\* repair_raw_data.py lines 69-118, called without arguments: each customer
\* facing type and the purchase orders are read as header and line items
\* and saved repaired, then each of the other tables
RepairSteps ==
    LET others == <<"customer", "vendor", "item">>
        F[k \in 0..Len(others)] ==
            IF k = 0 THEN <<>>
            ELSE F[k - 1] \o <<ReadStep(others[k] \o "_raw"),
                               SaveStep(others[k] \o "_repaired")>>
    IN  TypeLoopSteps(CustomerFacingTypes \o <<"PurchOrd">>, "raw", "repaired")
            \o F[Len(others)]

\* curate_transaction_data.py lines 88-101: for each type the enhanced line
\* items are read and saved curated
CurateSteps ==
    LET F[k \in 0..Len(CustomerFacingTypes)] ==
            IF k = 0 THEN <<>>
            ELSE F[k - 1]
                   \o <<ReadStep("transaction/" \o CustomerFacingTypes[k]
                                     \o "ItemLineItems_enhanced"),
                        SaveStep("transaction/" \o CustomerFacingTypes[k]
                                     \o "ItemLineItems_curated")>>
    IN  F[Len(CustomerFacingTypes)]

\* the artifacts a script saves
TaskWrites(script) ==
    {TaskSteps(script)[k].artifact :
        k \in {j \in DOMAIN TaskSteps(script) : TaskSteps(script)[j].op = "save"}}

\* what the repair stage leaves in the lake
RepairedArtifacts ==
    {"customer_repaired", "item_repaired", "vendor_repaired"}
        \cup Range(TransactionArtifacts(CustomerFacingTypes \o <<"PurchOrd">>, "repaired"))

AllTasks == Step3Tasks \o Step4Tasks

TaskIdle ==
    /\ task_lake = {}
    /\ task_written = {}
    /\ task_runner = "none"
    /\ task_i = 0
    /\ task_step = 0
    /\ task_status = [t \in Range(AllTasks) |-> "pending"]
    /\ task_reads = {}

\* `invoke all` is started in Step3; the lake holds the repaired artifacts,
\* all or all but one, and may hold the new category levels
TaskInit ==
    /\ \E missing \in {{}} \cup {{a} : a \in RepairedArtifacts} :
       \E levels \in SUBSET {NewItemCategories} :
           task_lake = (RepairedArtifacts \ missing) \cup levels
    /\ task_written = {}
    /\ task_runner = "Step3"
    /\ task_i = 1
    /\ task_step = 0
    /\ task_status = [t \in Range(AllTasks) |-> "pending"]
    /\ task_reads = {}

CurrentTask == Tasks(task_runner)[task_i]

\* the runner is inside the script of its current task
TaskRunning ==
    /\ task_runner \in {"Step3", "Step4"}
    /\ task_i <= Len(Tasks(task_runner))
    /\ task_status[CurrentTask] = "running"

CurrentStep == TaskSteps(CurrentTask)[task_step]

\* c.run starts the script of the next task
StartTask ==
    /\ task_runner \in {"Step3", "Step4"}
    /\ task_i <= Len(Tasks(task_runner))
    /\ task_status[CurrentTask] = "pending"
    /\ task_status' = [task_status EXCEPT ![CurrentTask] = "running"]
    /\ task_step' = 1
    /\ UNCHANGED <<task_lake, task_written, task_runner, task_i, task_reads>>

\* get_parquet_file_from_data_lake: the script downloads its next artifact,
\* or exits with ResourceNotFoundError when the lake does not hold it; c.run
\* then raises and the runner stops
ReadArtifact ==
    /\ TaskRunning
    /\ task_step <= Len(TaskSteps(CurrentTask))
    /\ CurrentStep.op = "read"
    /\ IF CurrentStep.artifact \in task_lake
       THEN /\ task_reads' = task_reads \cup
                   {[script |-> CurrentTask, artifact |-> CurrentStep.artifact,
                     written_in_run |-> CurrentStep.artifact \in task_written]}
            /\ task_step' = task_step + 1
            /\ UNCHANGED task_status
       ELSE /\ task_status' = [task_status EXCEPT ![CurrentTask] = "failed"]
            /\ UNCHANGED <<task_reads, task_step>>
    /\ UNCHANGED <<task_lake, task_written, task_runner, task_i>>

\* save_df_as_parquet_in_data_lake: the script saves its next artifact
SaveArtifact ==
    /\ TaskRunning
    /\ task_step <= Len(TaskSteps(CurrentTask))
    /\ CurrentStep.op = "save"
    /\ task_lake' = task_lake \cup {CurrentStep.artifact}
    /\ task_written' = task_written \cup {CurrentStep.artifact}
    /\ task_step' = task_step + 1
    /\ UNCHANGED <<task_runner, task_i, task_status, task_reads>>

\* the script exits after its last call; c.run returns and the runner goes
\* on to the next task
FinishTask ==
    /\ TaskRunning
    /\ task_step > Len(TaskSteps(CurrentTask))
    /\ task_status' = [task_status EXCEPT ![CurrentTask] = "completed"]
    /\ task_i' = task_i + 1
    /\ task_step' = 0
    /\ UNCHANGED <<task_lake, task_written, task_runner, task_reads>>

\* the script exits with another error between two of its calls; what it
\* has saved stays in the lake; c.run raises and the runner stops
FailTask ==
    /\ TaskRunning
    /\ task_step <= Len(TaskSteps(CurrentTask))
    /\ task_status' = [task_status EXCEPT ![CurrentTask] = "failed"]
    /\ UNCHANGED <<task_lake, task_written, task_runner, task_i, task_step, task_reads>>

\* Step3's `all` has ended without an error; `invoke all` is started in Step4
InvokeStep4 ==
    /\ task_runner = "Step3"
    /\ task_i > Len(Step3Tasks)
    /\ task_runner' = "Step4"
    /\ task_i' = 1
    /\ UNCHANGED <<task_lake, task_written, task_step, task_status, task_reads>>

----------------------------------------------------------------------------
(* Specifications: one per pipeline stage; the stages not under study idle *)

\* the variables of the augmentation stage, and their values while another
\* stage is under study
otherVars == <<fetchVars, taskVars>>

OtherIdle == FetchIdle /\ TaskIdle

laterVars == <<augVars, otherVars>>

LaterIdle == AugIdle /\ OtherIdle

\* the variables of the stages up to the consolidation
earlierVars == <<priceVars, curateVars, custVars, mfrVars, cleanVars, repairVars,
                 convVars, batchVars>>

EarlierIdle ==
    /\ PriceIdle /\ CurateIdle /\ CustIdle /\ MfrIdle /\ CleanIdle /\ RepairIdle
    /\ ConvIdle /\ BatchIdle

PriceNext == GetHighestRecentPrices /\ UNCHANGED <<custVars, curateVars, mfrVars, cleanVars, repairVars, convVars, batchVars, laterVars>>

InitPrice == PriceInit /\ CustIdle /\ CurateIdle /\ MfrIdle /\ CleanIdle /\ RepairIdle /\ ConvIdle /\ BatchIdle /\ LaterIdle

SpecPrice == InitPrice /\ [][PriceNext]_vars

InitPriceNoTies == PriceInitNoTies /\ CustIdle /\ CurateIdle /\ MfrIdle /\ CleanIdle /\ RepairIdle /\ ConvIdle /\ BatchIdle /\ LaterIdle

SpecPriceNoTies == InitPriceNoTies /\ [][PriceNext]_vars

InitPriceAnyIndex == PriceInitAnyIndex /\ CustIdle /\ CurateIdle /\ MfrIdle /\ CleanIdle /\ RepairIdle /\ ConvIdle /\ BatchIdle /\ LaterIdle

SpecPriceAnyIndex == InitPriceAnyIndex /\ [][PriceNext]_vars

CurateNext == CurateLineItems /\ UNCHANGED <<custVars, priceVars, mfrVars, cleanVars, repairVars, convVars, batchVars, laterVars>>

InitCurate == CurateInit /\ CustIdle /\ PriceIdle /\ MfrIdle /\ CleanIdle /\ RepairIdle /\ ConvIdle /\ BatchIdle /\ LaterIdle

SpecCurate == InitCurate /\ [][CurateNext]_vars

CustNext == CleanCustomers /\ UNCHANGED <<priceVars, curateVars, mfrVars, cleanVars, repairVars, convVars, batchVars, laterVars>>

InitCust == CustInit /\ PriceIdle /\ CurateIdle /\ MfrIdle /\ CleanIdle /\ RepairIdle /\ ConvIdle /\ BatchIdle /\ LaterIdle

SpecCust == InitCust /\ [][CustNext]_vars

MfrNext ==
    /\ ResolveManufacturers \/ ResolveManufacturersLegacy
    /\ UNCHANGED <<priceVars, curateVars, custVars, cleanVars, repairVars, convVars, batchVars, laterVars>>

InitMfr == MfrInit /\ PriceIdle /\ CurateIdle /\ CustIdle /\ CleanIdle /\ RepairIdle /\ ConvIdle /\ BatchIdle /\ LaterIdle

SpecMfr == InitMfr /\ [][MfrNext]_vars

InitMfrRaw == MfrInitRaw /\ PriceIdle /\ CurateIdle /\ CustIdle /\ CleanIdle /\ RepairIdle /\ ConvIdle /\ BatchIdle /\ LaterIdle

SpecMfrRaw == InitMfrRaw /\ [][MfrNext]_vars

CleanNext ==
    /\ CleanDataframe \/ CleanDataframeAgain
    /\ UNCHANGED <<priceVars, curateVars, custVars, mfrVars, repairVars, convVars, batchVars, laterVars>>

InitClean == CleanInit /\ PriceIdle /\ CurateIdle /\ CustIdle /\ MfrIdle /\ RepairIdle /\ ConvIdle /\ BatchIdle /\ LaterIdle

SpecClean == InitClean /\ [][CleanNext]_vars

RepairNext ==
    /\ \/ RepairOther
       \/ SaveOther
       \/ RepairCustomerFacingTransactions
       \/ RepairCustomerFacingLineItems
       \/ SaveCustomerFacingTransactions
       \/ SaveCustomerFacingLineItems
       \/ RepairPurchaseOrderTransactions
       \/ RepairPurchaseOrderLineItems
       \/ SavePurchaseOrderTransactions
       \/ SavePurchaseOrderLineItems
       \/ SkipUnknownTable
       \/ FinishRepair
    /\ UNCHANGED <<priceVars, curateVars, custVars, mfrVars, cleanVars, convVars, batchVars, laterVars>>

InitRepair == RepairInit /\ PriceIdle /\ CurateIdle /\ CustIdle /\ MfrIdle /\ CleanIdle /\ ConvIdle /\ BatchIdle /\ LaterIdle

SpecRepair == InitRepair /\ [][RepairNext]_vars

ConvNext ==
    /\ CallRepairDataframeData \/ CallConvertJsonStrings
    /\ UNCHANGED <<priceVars, curateVars, custVars, mfrVars, cleanVars, repairVars, batchVars, laterVars>>

InitConv ==
    ConvInit /\ PriceIdle /\ CurateIdle /\ CustIdle /\ MfrIdle /\ CleanIdle /\ RepairIdle
      /\ BatchIdle /\ LaterIdle

SpecConv == InitConv /\ [][ConvNext]_vars

BatchNext ==
    /\ \/ ReadFilesInBatches
       \/ RaiseKeyError
       \/ StartBatch
       \/ Submit
       \/ BeginCollect
       \/ StartRead
       \/ FinishRead
       \/ Collect
       \/ EndBatch
       \/ ReturnFinalDf
       \/ SaveConsolidated
       \/ RunConsolidationAgain
    /\ UNCHANGED <<priceVars, curateVars, custVars, mfrVars, cleanVars, repairVars,
                   convVars, laterVars>>

InitBatch ==
    BatchInit /\ PriceIdle /\ CurateIdle /\ CustIdle /\ MfrIdle /\ CleanIdle /\ RepairIdle
      /\ ConvIdle /\ LaterIdle

SpecBatch == InitBatch /\ [][BatchNext]_vars

\* the calling thread and the worker threads all keep running
SpecBatchFair == InitBatch /\ [][BatchNext]_vars /\ WF_vars(BatchNext)

AugTransNext == AugmentTransactions /\ UNCHANGED <<earlierVars, otherVars>>

InitAugTrans == AugTransInit /\ EarlierIdle /\ OtherIdle

SpecAugTrans == InitAugTrans /\ [][AugTransNext]_vars

LevelsNext == AddNewCategoryLevels /\ UNCHANGED <<earlierVars, otherVars>>

InitLevels == LevelsInit /\ EarlierIdle /\ OtherIdle

SpecLevels == InitLevels /\ [][LevelsNext]_vars

AugNext == AugmentLineItems /\ UNCHANGED <<earlierVars, otherVars>>

InitAug == AugInit /\ EarlierIdle /\ OtherIdle

SpecAug == InitAug /\ [][AugNext]_vars

FetchNext ==
    /\ CheckTransType \/ ReadTransactions \/ ReadCleanedTransactions \/ ReadLineItems
    /\ UNCHANGED <<earlierVars, augVars, taskVars>>

InitFetch == FetchInit /\ EarlierIdle /\ AugIdle /\ TaskIdle

SpecFetch == InitFetch /\ [][FetchNext]_vars

TaskNext ==
    /\ \/ StartTask \/ ReadArtifact \/ SaveArtifact
       \/ FinishTask \/ FailTask \/ InvokeStep4
    /\ UNCHANGED <<earlierVars, augVars, fetchVars>>

InitTask == TaskInit /\ EarlierIdle /\ AugIdle /\ FetchIdle

SpecTask == InitTask /\ [][TaskNext]_vars

Spec == SpecPrice

----------------------------------------------------------------------------
(* Claims on get_highest_recent_prices *)

PriceDone == price_pc = "done"

\* the price rows of SKU s dated in the half-open window (d - 365 days, d]
InWindow(po, s, d) ==
    {j \in DOMAIN po :
        /\ po[j].sku = s
        /\ po[j].created_date > d - WindowDays
        /\ po[j].created_date <= d}

\* the contract value: the maximum price in the window, null when it is empty
WindowMax(po, s, d) ==
    IF InWindow(po, s, d) = {} THEN Null
    ELSE Some(SetMax({po[j].unit_price : j \in InWindow(po, s, d)}))

\* C1: every returned row (date d, SKU s) holds the maximum price among the
\* price rows of SKU s dated in (d - 365 days, d], and null when no price
\* row of s falls in that window.
C1_MaxOverWindowEndingAtTarget ==
    PriceDone =>
        \A k \in DOMAIN price_result :
            price_result[k].output =
                WindowMax(purchase_orders, price_result[k].sku,
                          price_result[k].created_date)

\* C2: whatever the index labels and the date order of the target rows, the
\* call returns one row per input row, in the caller's positional order,
\* with every input column unchanged.
C2_RowOrderPreserved ==
    PriceDone =>
        /\ Len(price_result) = Len(line_items)
        /\ \A k \in DOMAIN line_items :
              /\ price_result[k].id = line_items[k].id
              /\ price_result[k].sku = line_items[k].sku
              /\ price_result[k].created_date = line_items[k].created_date

\* C3: when several price rows share SKU and date, a target row of that SKU
\* whose window holds that date receives at least the maximum over all of
\* the same-date rows, however the sorts arrange the tied rows.
C3_TiedRowsAllIncluded ==
    PriceDone =>
        \A k \in DOMAIN price_result : \A t \in Dates :
            LET s    == price_result[k].sku
                d    == price_result[k].created_date
                tied == {j \in DOMAIN purchase_orders :
                            /\ purchase_orders[j].sku = s
                            /\ purchase_orders[j].created_date = t}
            IN  (Cardinality(tied) >= 2 /\ t <= d /\ t > d - WindowDays)
                => /\ price_result[k].output # Null
                   /\ price_result[k].output[1] >=
                        SetMax({purchase_orders[j].unit_price : j \in tied})

----------------------------------------------------------------------------
(* Claims on curate_line_items *)

CurateDone == curate_pc = "done"

\* the row filter as claim C4 states it: gross_profit_percent must be finite
C4_KeepFinite(r) ==
    /\ IsNum(r.total_cost) /\ r.total_cost[2] > 0
    /\ IsNum(r.gross_profit_percent)
    /\ r.gross_profit_percent[2] >= -50
    /\ r.subsidiary_name # NotSpecified

\* C4: a row is kept iff total_cost > 0, gross_profit_percent is
\* finite and >= -50, and subsidiary_name is specified; kept rows are
\* unchanged and in input order.
C4_KeepsExactlyFiniteRows ==
    CurateDone => curate_out = SelectSeq(curate_in, C4_KeepFinite)

----------------------------------------------------------------------------
(* Claims on clean_and_filter_customer_data *)

\* the input rows that survive the active-customer filter, in output order
CustKept == ActiveRows(customers, active_cust_ids)

CustDone == cust_pc = "done" /\ IsTable(active_customers)

\* C5: every active customer whose primary_sales_rep and ai_sales_rep are both
\* specified and equal gets that common value as sales_rep.
C5_EqualRepsGiveThatRep ==
    CustDone =>
        \A k \in DOMAIN CustKept :
            (/\ CustKept[k].primary_sales_rep # NotSpecified
             /\ CustKept[k].ai_sales_rep # NotSpecified
             /\ CustKept[k].primary_sales_rep = CustKept[k].ai_sales_rep)
            => active_customers.rows[k].sales_rep = CustKept[k].primary_sales_rep

\* C6: for every active customer, exactly one specified rep gives that rep,
\* two different specified reps give "Multiple", two sentinels give the
\* sentinel; and a value written by one of the three overwrites is never
\* replaced by a later one.
C6_SalesRepCases ==
    CustDone =>
        LET t0 == SalesRepInit(CustKept, NotSpecified)
            t1 == SalesRepRule1(t0, NotSpecified)
            t2 == SalesRepRule2(t1, NotSpecified)
            t3 == SalesRepRule3(t2, NotSpecified)
        IN  /\ Len(active_customers.rows) = Len(CustKept)
            /\ \A k \in DOMAIN CustKept :
                 LET p   == CustKept[k].primary_sales_rep
                     a   == CustKept[k].ai_sales_rep
                     rep == active_customers.rows[k].sales_rep
                 IN  /\ (p # NotSpecified /\ a = NotSpecified) => rep = p
                     /\ (p = NotSpecified /\ a # NotSpecified) => rep = a
                     /\ (p # NotSpecified /\ a # NotSpecified /\ p # a) => rep = "Multiple"
                     /\ (p = NotSpecified /\ a = NotSpecified) => rep = NotSpecified
                     /\ (t1[k] # t0[k]) => (t2[k] = t1[k] /\ t3[k] = t1[k])
                     /\ (t2[k] # t1[k]) => t3[k] = t2[k]

\* a run where one active customer has a single specified rep and another
\* has two different ones
C6_Witness ==
    /\ CustDone
    /\ \E j, k \in DOMAIN CustKept :
          /\ CustKept[j].primary_sales_rep = NotSpecified
          /\ CustKept[j].ai_sales_rep = "Bob"
          /\ active_customers.rows[j].sales_rep = "Bob"
          /\ CustKept[k].primary_sales_rep = "Jane"
          /\ CustKept[k].ai_sales_rep = "Bob"
          /\ active_customers.rows[k].sales_rep = "Multiple"

----------------------------------------------------------------------------
(* Claims on clean_and_resolve_manufacturers *)

MfrDone == mfr_pc = "done" /\ mfr_module = "data_cleansing"

\* the first of manufacturer, custom_manufacturer, vsi_mfr that is not the
\* sentinel, and vsi_mfr when the first two both are
FirstSpecified(r) ==
    IF r.manufacturer # S_NotSpecified THEN r.manufacturer
    ELSE IF r.custom_manufacturer # S_NotSpecified THEN r.custom_manufacturer
    ELSE r.vsi_mfr

\* C7: every returned row carries canon(normalize(v)), v being the first
\* value among manufacturer, custom_manufacturer, vsi_mfr that is not
\* "Not Specified"; the misspelling lookup is made on the normalized string,
\* so ("Valco", "X", "Y") gives "Valcor" and ("Not Specified", "ACME Corp.",
\* "Not Specified") gives "Acme Corp" under the map {"Valcor": ["Valco"]}.
C7_FirstSpecifiedNormalizedCanonical ==
    MfrDone =>
        /\ IsTable(mfr_result)
        /\ Len(mfr_result.rows) = Len(items.rows)
        /\ \A i \in DOMAIN items.rows :
             LET r == items.rows[i]
                 out == mfr_result.rows[i].manufacturer
             IN  /\ out = CorrectMisspellings(
                              Title(CollapseSpaces(Strip(ReplaceSpecial(FirstSpecified(r))))),
                              mfg_name_map)
                 /\ (r.manufacturer = S_Valco /\ Len(mfg_name_map) = 1)
                        => out = S_Valcor
                 /\ (r.manufacturer = S_NotSpecified
                       /\ r.custom_manufacturer = S_ACMECorpDot
                       /\ Len(mfg_name_map) = 1)
                        => out = S_AcmeCorp

\* C7 witness: a call has resolved a row whose manufacturer is the sentinel
\* and whose custom_manufacturer "ACME Corp." is not; the value taken from
\* custom_manufacturer matched the map only after normalization
C7_Witness ==
    /\ MfrDone
    /\ \E i \in DOMAIN items.rows :
         /\ items.rows[i].manufacturer = S_NotSpecified
         /\ items.rows[i].custom_manufacturer = S_ACMECorpDot
         /\ mfr_result.rows[i].manufacturer = S_AcmeCorporation

\* a cell that carries no manufacturer: the sentinel or one of its markers
IsUnspecified(v) == v \in {S_NotSpecified, S_null, S_Unknown, Missing}

\* C8: "null", "Unknown" and a missing value count as "Not Specified" in all
\* three fields: a call of either resolver returns a table, the returned
\* manufacturer is never missing, and a marker in manufacturer never wins
\* over a specified custom_manufacturer or vsi_mfr.
C8_MarkersTreatedAsNotSpecified ==
    mfr_pc \in {"done", "raised"} =>
        /\ IsTable(mfr_result)
        /\ \A i \in DOMAIN items.rows :
            LET r == items.rows[i]
                out == mfr_result.rows[i].manufacturer
                fallback == IF ~IsUnspecified(r.custom_manufacturer)
                            THEN r.custom_manufacturer ELSE r.vsi_mfr
            IN  /\ out # Missing
                /\ (IsUnspecified(r.manufacturer) /\ ~IsUnspecified(fallback))
                       => out = CorrectMisspellings(NormalizeManufacturer(fallback),
                                                    mfg_name_map)

----------------------------------------------------------------------------
(* Claims on clean_dataframe *)

\* C9: clean_dataframe applied to its own output succeeds and returns a
\* table equal to the output of the first application, for every table
\* name, "line_item" included.
C9_CleanIsIdempotent ==
    clean_pc = "twice" => (IsTable(clean_twice) /\ clean_twice = clean_once)

----------------------------------------------------------------------------
(* Claims on the repair stage *)

\* what repair_dataframe_data gives for the raw file f when main repairs it
RepairOutcome(f) ==
    IF f.name \in Range(customer_facing_transactions)
    THEN repair_dataframe_data(DropAlphanumericTranids(raw_lake[f]),
                               IF f.part = "transactions" THEN "cust_facing_transaction"
                               ELSE "cust_facing_line_item",
                               table_fields_map)
    ELSE repair_dataframe_data(raw_lake[f],
                               IF f.part = "line_items" THEN "PurchOrd_li" ELSE f.name,
                               table_fields_map)

\* C10: a repaired artifact is written only after validate_dataframe_data
\* returned an empty list for the coerced data of its table; a non-empty list
\* becomes a ValidationError before any save of that table; for a
\* customer-facing or purchase-order type neither the header nor the
\* line-item artifact is written when either of the two fails validation.
C10_SavedOnlyAfterValidation ==
    /\ \A f \in LakeFiles :
         repaired_lake[f] # NoTable =>
            /\ IsFrame(repaired_lake[f])
            /\ validate_dataframe_data(repaired_lake[f]) = <<>>
            /\ \A g \in FilesOf(f.name) : IsFrame(RepairOutcome(g))
    /\ repair_error.error = "ValidationError" =>
         \A f \in FilesOf(raw_data_table) : repaired_lake[f] = NoTable

\* C10 witness: the run saved an earlier table and then ended with the
\* ValidationError of the line items of a customer-facing type whose header
\* had passed; nothing was written for that type
C10_Witness ==
    /\ repair_pc = "raised"
    /\ repair_error.error = "ValidationError"
    /\ repair_error.table = "cust_facing_line_item"
    /\ \E f \in LakeFiles : repaired_lake[f] # NoTable
    /\ \A f \in FilesOf(raw_data_table) : repaired_lake[f] = NoTable


\* every file of the table at position k of the list passes its repair
TableIsValid(k) ==
    /\ FilesOf(data_to_convert[k]) # {}
    /\ \A f \in FilesOf(data_to_convert[k]) : IsFrame(RepairOutcome(f))

TableIsSaved(k) ==
    \A f \in FilesOf(data_to_convert[k]) : repaired_lake[f] # NoTable

\* C11: when a table of the run raises a ValidationError or a schema error,
\* the run goes on: every later table of the list is still retrieved,
\* repaired and, when valid, saved.
C11_RunContinuesAfterFailure ==
    (repair_pc = "raised" /\ repair_error.error \in {"ValidationError", "KeyError"}) =>
        \A k \in (repair_i + 1)..Len(data_to_convert) :
            TableIsValid(k) => TableIsSaved(k)


----------------------------------------------------------------------------
(* Claims on repair_dataframe_data and convert_json_strings_to_python_types *)

RepairCalled == conv_pc = "done" /\ conv_fn = "repair_dataframe_data"

ConvertCalled == conv_pc = "done" /\ conv_fn = "convert_json_strings_to_python_types"

\* C12: repair_dataframe_data never changes the table object its caller
\* passed: after the call, returned or raised, the caller's table has the
\* columns and the cell values it had before.
C12_CallerTableUnchanged ==
    RepairCalled => conv_df_after = conv_df


\* entry k of the field map lists a field that is not a column of df, and the
\* entries before it convert df without an error
AbsentFieldHit(df, field_map) ==
    \E k \in DOMAIN field_map :
        /\ ~(Range(field_map[k].fields) \subseteq Range(df.columns))
        /\ IsFrame(convert_json_strings_to_python_types(df, SubSeq(field_map, 1, k - 1)))

\* C13: when the field map lists a field that is not a column of the table,
\* convert_json_strings_to_python_types fails with the designated SchemaError
\* kind and returns no table; the failure changes nothing else (the caller's
\* table is as it was passed).
C13_AbsentFieldIsSchemaError ==
    (ConvertCalled /\ AbsentFieldHit(conv_df, conv_field_map)) =>
        /\ ~IsFrame(conv_result)
        /\ conv_result.error = "SchemaError"
        /\ conv_df_after = conv_df


\* the entries of the field map declared under type_name
EntriesOfType(field_map, type_name) ==
    {k \in DOMAIN field_map : field_map[k].type_name = type_name}

\* C14: for every field declared under "bool", "T", "True" and "true" become
\* true, "F", "False" and "false" become false, and any other token becomes
\* null and then the declared null_substitute; no token meaning false is
\* output as true.
C14_BoolTokens ==
    (ConvertCalled /\ IsFrame(conv_result)) =>
        \A k \in EntriesOfType(conv_field_map, "bool") :
          \A c \in Range(conv_field_map[k].fields) :
            \A i \in DOMAIN conv_df.rows :
               LET in == conv_df.rows[i][c]
                   out == conv_result.rows[i][c]
               IN  IF in \in {StrCell(B_T), StrCell(B_True), StrCell(B_true)}
                   THEN out = BoolCell(TRUE)
                   ELSE IF in \in {StrCell(B_F), StrCell(B_False), StrCell(B_false)}
                   THEN out = BoolCell(FALSE)
                   ELSE out = conv_field_map[k].null_substitute

\* the cell is the token "null" in any letter case, with any surrounding blanks
IsNullToken(cell) == cell.t = "str" /\ LowerCase(Strip(cell.v)) = S_null

\* C15: after the conversion every cell of a mapped field whose input was the
\* token "null", in any letter case and with any leading or trailing
\* whitespace, holds the declared null_substitute of its type, so no mapped
\* column contains the literal string "null".
C15_NullTokensSubstituted ==
    (ConvertCalled /\ IsFrame(conv_result)) =>
        \A k \in DOMAIN conv_field_map :
          \A c \in Range(conv_field_map[k].fields) :
            \A i \in DOMAIN conv_df.rows :
               /\ IsNullToken(conv_df.rows[i][c]) =>
                     conv_result.rows[i][c] =
                        Cast(conv_field_map[k].null_substitute, conv_field_map[k].type_name)
               /\ conv_result.rows[i][c] # StrCell(S_null)

\* C16: for a date field the coercion works value by value and never fails:
\* a value that cannot be parsed or that overflows the date range becomes the
\* null date and then the null_substitute, and every other value of the
\* column keeps its own parsed date.
C16_DatesCoercedPerValue ==
    (ConvertCalled /\ conv_field_map = <<DateFields, BoolFields, NameFields>>) =>
        /\ IsFrame(conv_result)
        /\ \A i \in DOMAIN conv_df.rows :
             LET in == conv_df.rows[i].day
             IN  IF in.t = "str" /\ IsDateText(in.v) /\ ~OutOfBounds(in.v)
                 THEN conv_result.rows[i].day = DateCell(in.v)
                 ELSE conv_result.rows[i].day = DateCell(D_1800)


----------------------------------------------------------------------------
(* Claims about read_files_in_batches_from_data_lake                       *)

\* the number of the batch the listed object j is read in
BatchOf(j) == (j - 1) \div batch_size

\* C17: batches run one after another: no read of an object of a later batch
\* is started before every read of the earlier batches has completed and its
\* result has been collected, whatever the interleaving of the worker threads.
C17_BatchesSequential ==
    \A j \in DOMAIN futures : \A k \in DOMAIN futures :
        (BatchOf(k) < BatchOf(j) /\ read_attempts[j] > 0)
            => futures[k].state = "collected"

\* C17 witness: a read of the second batch is in progress and the batch
\* before it held two reads.
C17_Witness ==
    /\ batch_size = 2
    /\ \E j \in DOMAIN futures :
         /\ BatchOf(j) = 1
         /\ futures[j].state = "running"

\* the records of the listed objects whose read succeeds
SuccessfulRecords ==
    UNION {Range(lake_objects[j].records) : j \in DOMAIN lake_objects}

\* the table holds each of the records once and nothing else
HoldsExactly(df, records) ==
    /\ Range(df) = records
    /\ \A r \in records : Cardinality({p \in DOMAIN df : df[p] = r}) = 1

\* C18: whichever reads fail and however the threads interleave, the call
\* never raises, ends once it was made, has by then attempted every listed
\* object exactly once (and never more than once before), and returns exactly
\* the records of the objects that were read successfully.
C18_FailuresIsolated ==
    /\ [](batch_pc # "raised")
    /\ [](\A j \in DOMAIN read_attempts : read_attempts[j] <= 1)
    /\ [](batch_pc = "done" =>
            /\ \A j \in DOMAIN read_attempts : read_attempts[j] = 1
            /\ HoldsExactly(final_df, SuccessfulRecords))
    /\ (batch_pc = "loop") ~> (batch_pc = "done")

\* C18 witness: the call has returned; the first object of a batch of two
\* failed, the second object of that batch and the object of the next batch
\* were read and are in the returned table.
C18_Witness ==
    /\ batch_pc = "done"
    /\ batch_size = 2
    /\ Len(file_names) = 3
    /\ ~lake_objects[1].ok
    /\ lake_objects[2].ok
    /\ lake_objects[3].ok
    /\ Range(lake_objects[2].records) \subseteq Range(final_df)
    /\ Range(lake_objects[3].records) \subseteq Range(final_df)

\* C19: at every moment at most max_workers reads are in progress and at most
\* batch_size reads are submitted and not yet collected.
C19_BoundedReads ==
    /\ Cardinality(Running(futures)) <= max_workers
    /\ Cardinality(Outstanding(futures)) <= batch_size

\* C19 witness: both bounds are met: a whole batch of two is outstanding, the
\* one worker is reading and the other task waits in the queue.
C19_Witness ==
    /\ batch_size = 2
    /\ max_workers = 1
    /\ Cardinality(Outstanding(futures)) = 2
    /\ Cardinality(Running(futures)) = 1
    /\ \E j \in DOMAIN futures : futures[j].state = "queued"


----------------------------------------------------------------------------
(* Claims about re-running a stage                                         *)

\* the records of a table and how often it holds each, whatever their order
RecordBag(rows) ==
    [r \in Range(rows) |-> Cardinality({k \in DOMAIN rows : rows[k] = r})]

\* the stage scripts and the downloads and saves of each
StageScripts == Range(AllTasks) \cup {"repair_raw_data", "curate_transaction_data"}

StageSteps(script) ==
    IF script = "repair_raw_data" THEN RepairSteps
    ELSE IF script = "curate_transaction_data" THEN CurateSteps
    ELSE TaskSteps(script)

StageArtifacts(script, op) ==
    {StageSteps(script)[k].artifact :
        k \in {j \in DOMAIN StageSteps(script) : StageSteps(script)[j].op = op}}

\* C20: running a stage a second time on unchanged inputs leaves the data lake
\* as the first run left it. The save of the second run of the consolidation
\* stage replaces the artifact by a table of the same records, each as often
\* as before (a table being its rows whatever their order), and no stage
\* script saves an artifact that it reads.
C20_RerunLeavesSameRecords ==
    /\ [][(stage_runs = 1 /\ stage_runs' = 2) =>
             /\ raw_artifact'.exists
             /\ RecordBag(raw_artifact'.rows) = RecordBag(raw_artifact.rows)]_vars
    /\ [](\A s \in StageScripts :
             StageArtifacts(s, "read") \cap StageArtifacts(s, "save") = {})

\* C20 witness: the consolidation has run twice over two objects read in one
\* batch and has saved their three records, the second object's first
C20_Witness ==
    /\ stage_runs = 2
    /\ raw_artifact.exists
    /\ Len(raw_artifact.rows) = 3
    /\ raw_artifact.rows[1].file = 2
    /\ raw_artifact.rows[3].file = 1


----------------------------------------------------------------------------
(* Claims about the augmentation stage                                     *)

\* the subsidiary of the customer of row r: the one of the customer table,
\* the default when the customer is not in the table
JoinedSubsidiary(r, customer_df) ==
    LET m == Matches_on(r, customer_df, "customer_id")
    IN  IF m = {} THEN NotSpecified
        ELSE customer_df[CHOOSE j \in m : \A k \in m : j <= k].subsidiary_name

\* C22: after augment_transactions every row has a subsidiary_name that is not
\* missing: the customer's subsidiary when location is "Not Specified",
\* location_map[location] when location is a key of the map, and the default
\* "Not Specified" when location is neither.
C22_SubsidiaryResolved ==
    aug_pc = "done" =>
        /\ Len(aug_result) = Len(aug_df)
        /\ \A i \in DOMAIN aug_result :
             /\ aug_result[i].subsidiary_name # NaString
             /\ aug_df[i].location = NotSpecified =>
                    aug_result[i].subsidiary_name = JoinedSubsidiary(aug_df[i], aug_customers)
             /\ aug_df[i].location \in DOMAIN LocationSubsidiaryMap =>
                    aug_result[i].subsidiary_name = LocationSubsidiaryMap[aug_df[i].location]
             /\ (/\ aug_df[i].location # NotSpecified
                 /\ aug_df[i].location \notin DOMAIN LocationSubsidiaryMap) =>
                    aug_result[i].subsidiary_name = NotSpecified

\* C22 witness: a returned table with a row of an unmapped location, filled
\* with the default, and a row of the sentinel location that took the
\* subsidiary of its customer.
C22_Witness ==
    /\ aug_pc = "done"
    /\ Len(aug_result) = 2
    /\ aug_df[1].location = "Mars"
    /\ aug_result[1].subsidiary_name = NotSpecified
    /\ aug_df[2].location = NotSpecified
    /\ aug_result[2].subsidiary_name = "East"


\* the row of the lookup for the sku of row r (the lookup has one row per sku)
LookupRow(r, level_info) ==
    level_info[CHOOSE j \in Matches_on(r, level_info, "sku") : TRUE]

\* the tables have the same number of rows, in the same order
SameRows(result, df) ==
    /\ Len(result) = Len(df)
    /\ \A i \in DOMAIN result : result[i].id = df[i].id /\ result[i].sku = df[i].sku

\* C23 as stated: after add_new_category_levels all six levels of every row
\* are present; a row whose sku is absent from the lookup keeps its levels 1-3
\* and has levels 4-6 "Not Specified", a row whose sku is present takes the
\* lookup's levels; the number and order of rows are unchanged.
C23_LevelsKeptOrTaken ==
    aug_pc = "done" =>
        /\ SameRows(aug_result, aug_df)
        /\ \A i \in DOMAIN aug_result :
             /\ \A c \in LevelColumns : aug_result[i][c] # NaString
             /\ IF Matches_on(aug_df[i], aug_items, "sku") = {}
                THEN /\ \A c \in {"level_1_category", "level_2_category", "level_3_category"} :
                          aug_result[i][c] = aug_df[i][c]
                     /\ \A c \in {"level_4_category", "level_5_category", "level_6_category"} :
                          aug_result[i][c] = NotSpecified
                ELSE \A c \in LevelColumns :
                          aug_result[i][c] = LookupRow(aug_df[i], aug_items)[c]

\* level 1 after the renaming of the old category
Renamed(level_1) == IF level_1 = "Valve" THEN "Valves" ELSE level_1

\* C23 amended: as C23, except that a level_1_category "Valve", kept or taken
\* from the lookup, is written as "Valves".
C23_LevelsKeptOrTakenRenamed ==
    aug_pc = "done" =>
        /\ SameRows(aug_result, aug_df)
        /\ \A i \in DOMAIN aug_result :
             /\ \A c \in LevelColumns : aug_result[i][c] # NaString
             /\ IF Matches_on(aug_df[i], aug_items, "sku") = {}
                THEN /\ aug_result[i].level_1_category = Renamed(aug_df[i].level_1_category)
                     /\ \A c \in {"level_2_category", "level_3_category"} :
                          aug_result[i][c] = aug_df[i][c]
                     /\ \A c \in {"level_4_category", "level_5_category", "level_6_category"} :
                          aug_result[i][c] = NotSpecified
                ELSE /\ aug_result[i].level_1_category =
                            Renamed(LookupRow(aug_df[i], aug_items).level_1_category)
                     /\ \A c \in LevelColumns \ {"level_1_category"} :
                          aug_result[i][c] = LookupRow(aug_df[i], aug_items)[c]

\* C23 witness: a returned table whose first row has a sku absent from the
\* lookup and the old level 1 "Valve", and whose second row took its levels
\* from the lookup.
C23_Witness ==
    /\ aug_pc = "done"
    /\ Len(aug_result) = 2
    /\ Matches_on(aug_df[1], aug_items, "sku") = {}
    /\ aug_df[1].level_1_category = "Valve"
    /\ aug_result[1].level_1_category = "Valves"
    /\ Matches_on(aug_df[2], aug_items, "sku") # {}
    /\ aug_result[2].level_4_category = "Elbow"


\* C21: a line item whose tranid matches no transaction is not dropped by
\* augment_line_items: it is in the augmented output, with created_date
\* 1800-01-01 and the other transaction fields filled with their defaults.
C21_UnmatchedLineItemKept ==
    aug_pc = "done" =>
        \A i \in DOMAIN aug_df :
            Matches_on(aug_df[i], aug_transactions, "tranid") = {} =>
                \E k \in DOMAIN aug_result :
                    /\ aug_result[k].id = aug_df[i].id
                    /\ aug_result[k].created_date = SentinelDate
                    /\ aug_result[k].ai_order_type = NotSpecified
                    /\ aug_result[k].entered_by = NotSpecified


\* C24 as stated: in the augmented line-item output every row with
\* total_amount = 0 has gross_profit_percent = 0, the undefined and the
\* infinite results of the division both being normalized to 0.
C24_ZeroAmountZeroPercent ==
    aug_pc = "done" =>
        \A k \in DOMAIN aug_result :
            aug_result[k].total_amount = Num(0) => aug_result[k].gross_profit_percent = Num(0)

\* the product of two cells of an output row is exactly zero
ZeroProduct(x, y) == x = Num(0) \/ y = Num(0)

\* C24 amended: gross_profit_percent is computed before the rounding, from
\* the products quantity * unit_price and quantity * unit_cost. In the
\* augmented line-item output a row whose quantity * unit_price is 0 has
\* gross_profit_percent = 0 when its quantity * unit_cost is 0 too (the
\* undefined 0/0 is filled, never written as null) and -infinity or +infinity
\* when its quantity * unit_cost is not 0 (the infinite result is not
\* normalized); every other row has a finite gross_profit_percent, also when
\* its total_amount is written as 0.00 after the rounding.
C24_ZeroProductZeroOrInfinite ==
    aug_pc = "done" =>
        \A k \in DOMAIN aug_result :
            IF ZeroProduct(aug_result[k].quantity, aug_result[k].unit_price)
            THEN /\ aug_result[k].total_amount = Num(0)
                 /\ IF ZeroProduct(aug_result[k].quantity, aug_result[k].unit_cost)
                    THEN aug_result[k].gross_profit_percent = Num(0)
                    ELSE aug_result[k].gross_profit_percent \in {NegInf, PosInf}
            ELSE aug_result[k].gross_profit_percent[1] = "num"

\* C24 witness: an output with two rows whose total_amount is written as 0:
\* one of unit price 0 and a non-zero cost, with gross_profit_percent
\* -infinity, and one whose total amount 0.10 * 0.04 was rounded to 0.00,
\* with gross_profit_percent 75
C24_Witness ==
    /\ aug_pc = "done"
    /\ \E k \in DOMAIN aug_result :
           /\ aug_result[k].unit_price = Num(0)
           /\ aug_result[k].total_amount = Num(0)
           /\ aug_result[k].gross_profit # Num(0)
           /\ aug_result[k].gross_profit_percent = NegInf
    /\ \E k \in DOMAIN aug_result :
           /\ ~ZeroProduct(aug_result[k].quantity, aug_result[k].unit_price)
           /\ aug_result[k].total_amount = Num(0)
           /\ aug_result[k].gross_profit = Num(0)
           /\ aug_result[k].gross_profit_percent = Amount(7500)


\* C30: in the output of augment_line_items every row has
\* highest_quoted_cost >= its own unit_cost, highest_cost >= highest_quoted_cost
\* and highest_cost >= highest_recent_cost, highest_cost being one of the two
\* (the other one when one of them was missing before filling).
C30_HighestCostBounds ==
    aug_pc = "done" =>
        \A k \in DOMAIN aug_result :
            LET r == aug_result[k]
            IN  /\ r.highest_quoted_cost[2] >= r.unit_cost[2]
                /\ r.highest_cost[2] >= r.highest_quoted_cost[2]
                /\ r.highest_cost[2] >= r.highest_recent_cost[2]
                /\ r.highest_cost \in {r.highest_quoted_cost, r.highest_recent_cost}


----------------------------------------------------------------------------
(* Further claims on get_highest_recent_prices *)

\* the price rows of sku s dated at or before day d
ObservedUpTo(s, d) ==
    {j \in DOMAIN purchase_orders :
        purchase_orders[j].sku = s /\ purchase_orders[j].created_date <= d}

\* C25: each target row gets the rolling maximum attached to the most recent
\* price observation of its sku dated at or before its date, that is the
\* maximum price of the sku over the 365 days ending at that observation's
\* date, and null when the sku has no observation at or before its date.
C25_AsOfRollingMax ==
    PriceDone =>
        \A k \in DOMAIN price_result :
            LET s    == price_result[k].sku
                seen == ObservedUpTo(s, price_result[k].created_date)
                t    == SetMax({purchase_orders[j].created_date : j \in seen})
            IN  IF seen = {}
                THEN price_result[k].output = Null
                ELSE price_result[k].output =
                        Some(SetMax({purchase_orders[j].unit_price :
                                        j \in {i \in seen :
                                                 purchase_orders[i].created_date > t - WindowDays}}))


----------------------------------------------------------------------------
(* Further claims on the repair script *)

KnownTables ==
    Range(other) \cup Range(customer_facing_transactions) \cup Range(purchase_order_transactions)

\* C27: the repair script rejects an unknown table name: once the run has
\* come to a name of TABLES that is not a known table it has raised
\* ValueError, and it never passes over the name or ends normally.
C27_UnknownTableRejected ==
    \A j \in DOMAIN data_to_convert :
        (data_to_convert[j] \notin KnownTables /\ (repair_i > j \/ repair_pc = "done"))
            => (repair_pc = "raised" /\ repair_error = ValueError)


----------------------------------------------------------------------------
(* Further claims on read_files_in_batches_from_data_lake *)

\* C29: for given objects and failing reads the returned rows are the same
\* multiset in every interleaving (each record of a readable object once,
\* nothing else), and every row of an earlier batch precedes every row of a
\* later batch; only the order within a batch follows completion order.
C29_RowsFixedBatchesInOrder ==
    batch_pc = "done" =>
        /\ \A j \in DOMAIN lake_objects : \A n \in DOMAIN lake_objects[j].records :
               Cardinality({p \in DOMAIN final_df :
                               final_df[p] = lake_objects[j].records[n]}) = 1
        /\ \A p \in DOMAIN final_df : final_df[p] \in SuccessfulRecords
        /\ \A p \in DOMAIN final_df : \A q \in DOMAIN final_df :
               p < q => BatchOf(final_df[p].file) <= BatchOf(final_df[q].file)

\* C29 witness: three readable objects in batches of two; the second object
\* completed before the first, so its rows come first, and the rows of the
\* third object, of the next batch, come last.
C29_Witness ==
    /\ batch_pc = "done"
    /\ batch_size = 2
    /\ Len(file_names) = 3
    /\ \A j \in DOMAIN lake_objects : lake_objects[j].ok
    /\ final_df[1].file = 2
    /\ final_df[Len(final_df)].file = 3
    /\ \E p \in DOMAIN final_df : final_df[p].file = 1


----------------------------------------------------------------------------
(* Claims on get_transactions_and_line_items *)

\* C28: with a trans_type outside Estimate, SalesOrd, PurchOrd, CustInvc the
\* call raises ValueError before any read; otherwise the two tables returned
\* come from one tier: the tier asked for, or "cleaned" for both when
\* "enhanced" was asked for and the enhanced header artifact does not exist.
C28_SameTier ==
    /\ fetch_trans_type \notin TransTypes =>
           /\ fetch_reads = <<>>
           /\ fetch_pc \in {"idle", "start", "raised"}
           /\ fetch_pc = "raised" => fetch_error = ValueError
    /\ fetch_pc = "returned" =>
           /\ fetch_transactions.tier = fetch_line_items.tier
           /\ \/ fetch_transactions.tier = LowerCase(fetch_requested)
              \/ /\ LowerCase(fetch_requested) = EnhancedState
                 /\ TransactionsPath(fetch_trans_type, EnhancedState) \notin fetch_lake
                 /\ fetch_transactions.tier = CleanedState

\* C28 witness: "enhanced" was asked for, the enhanced header does not exist
\* while the enhanced line items do, and both tables returned are the cleaned ones.
C28_Witness ==
    /\ fetch_pc = "returned"
    /\ LowerCase(fetch_requested) = EnhancedState
    /\ LineItemsPath(fetch_trans_type, EnhancedState) \in fetch_lake
    /\ fetch_transactions = TransactionsPath(fetch_trans_type, CleanedState)
    /\ fetch_line_items = LineItemsPath(fetch_trans_type, CleanedState)


----------------------------------------------------------------------------
(* Claims on the task runners *)

\* the position of a script in the run sequence Step3 `all`, Step4 `all`
TaskPosition(script) == CHOOSE p \in DOMAIN AllTasks : AllTasks[p] = script

\* C26: with Step3 `all` run before Step4 `all`, a script is started only
\* when every script before it has completed (so augment_item_data finishes
\* before augment_purchase_order_data starts, both before
\* augment_transaction_data, and a failed task stops the later ones), no
\* artifact is read while a script that writes it has not completed, and
\* every artifact read by a Step4 script was written by a script of the run.
C26_ReadsFollowWrites ==
    /\ \A s \in Range(AllTasks) : \A t \in Range(AllTasks) :
           (TaskPosition(s) < TaskPosition(t) /\ task_status[t] # "pending")
               => task_status[s] = "completed"
    /\ \A r \in task_reads : \A w \in Range(AllTasks) :
           r.artifact \in TaskWrites(w) => task_status[w] = "completed"
    /\ \A r \in task_reads :
           r.script \in Range(Step4Tasks) => r.written_in_run

====
